---- MODULE Spec2Model ----
(***************************************************************************)
(* Entitlement ledger and webhook reconciler of athleteai-backend.         *)
(*                                                                         *)
(* State: the users table, the Subscription table (one row per user), the  *)
(* ReportPurchase table, the wall clock, the row lock of the Subscription  *)
(* row, and for every request slot the handler position and its locals     *)
(* (the in-memory ORM object it read and will save).                       *)
(*                                                                         *)
(* Python None is NULL for strings and 0 for instants (the code tests      *)
(* instants for truthiness: `if cpe_unix else None`).                      *)
(***************************************************************************)
EXTENDS Integers, Sequences, FiniteSets, TLC

\* ------------------------------------------------------------------------
\* Bounds of the model
\* ------------------------------------------------------------------------
MaxTime == 5
MaxUnits == 2
MaxUsage == 8
\* The states of its subscription the provider's record keeps.
MaxProviderStates == 3
\* The credits the account commits while the provider's record changes.
MaxProviderCommits == 1
\* The resolution of the clock: instants per second.  timezone.now() has
\* microseconds; what the code does with an instant depends only on how it
\* compares with the whole-second bounds of the windows, so one instant
\* strictly between two whole seconds stands for all of them.
TicksPerSecond == 2

\* ------------------------------------------------------------------------
\* Program constants
\* ------------------------------------------------------------------------
FREE_TRIAL_DAYS == 14
SecondsPerDay == 86400

NULL == "None"

\* LIMITS[plan]["monthly"], 0 for a plan the table does not list
\* (LIMITS.get(plan, {}).get("monthly", 0)).
MonthlyCap(plan) ==
    CASE plan = "free" -> 0
      [] plan = "essentials" -> 6
      [] plan = "precision" -> 12
      [] OTHER -> 0

\* LIMITS["free"]["trial_once"]
TrialOnce == 1

\* ------------------------------------------------------------------------
\* Calendar arithmetic.  An instant (a datetime in UTC) is the number of
\* clock ticks since 2024-01-01T00:00:00Z; the timestamps of the provider
\* are whole Unix seconds.
\* ------------------------------------------------------------------------
IsLeap(y) == (y % 4 = 0 /\ y % 100 # 0) \/ y % 400 = 0

DaysInMonth(y, m) ==
    CASE m = 2 -> IF IsLeap(y) THEN 29 ELSE 28
      [] m \in {4, 6, 9, 11} -> 30
      [] OTHER -> 31

\* Days since 1970-01-01 of the civil date y-m-d (proleptic Gregorian).
DaysFromCivil(y, m, d) ==
    LET yy == IF m <= 2 THEN y - 1 ELSE y
        era == yy \div 400
        yoe == yy - era * 400
        mp == IF m > 2 THEN m - 3 ELSE m + 9
        doy == (153 * mp + 2) \div 5 + d - 1
        doe == yoe * 365 + yoe \div 4 - yoe \div 100 + doy
    IN era * 146097 + doe - 719468

\* The element of a one-element set: an intermediate value is computed
\* once and then named.
Only(S) == CHOOSE x \in S : TRUE

\* The civil date <<y, m, d>> of a day number.
CivilFromDays(z0) ==
    Only({ Only({ Only({ Only({
        LET era == z \div 146097
            mp == (5 * doy + 2) \div 153
            d == doy - (153 * mp + 2) \div 5 + 1
            m == IF mp < 10 THEN mp + 3 ELSE mp - 9
        IN <<yoe + era * 400 + (IF m <= 2 THEN 1 ELSE 0), m, d>> :
        doy \in {doe - (365 * yoe + yoe \div 4 - yoe \div 100)} }) :
        yoe \in {(doe - doe \div 1460 + doe \div 36524 - doe \div 146096)
                   \div 365} }) :
        doe \in {z % 146097} }) :
        z \in {z0 + 719468} })

\* The day number of the instant 0.
EpochDay == DaysFromCivil(2024, 1, 1)

TicksPerDay == SecondsPerDay * TicksPerSecond

\* timedelta(seconds=1)
OneSecond == TicksPerSecond

\* The Unix timestamp of y-m-d at `secs` seconds after midnight (UTC).
UnixTime(y, m, d, secs) == DaysFromCivil(y, m, d) * SecondsPerDay + secs

\* datetime.fromtimestamp(unix, tz=timezone.utc)
FromTimestamp(unix) == (unix - EpochDay * SecondsPerDay) * TicksPerSecond

\* t + relativedelta(months=1): next month, same time of day, the day
\* clamped to the last day of the target month.
AddOneMonth(t) ==
    Only({ LET y2 == IF c[2] = 12 THEN c[1] + 1 ELSE c[1]
               m2 == IF c[2] = 12 THEN 1 ELSE c[2] + 1
               dim == DaysInMonth(y2, m2)
               d2 == IF c[3] > dim THEN dim ELSE c[3]
           IN (DaysFromCivil(y2, m2, d2) - EpochDay) * TicksPerDay
              + (t % TicksPerDay) :
           c \in {CivilFromDays(t \div TicksPerDay + EpochDay)} })

\* billing_window_from(start) = (start, start + 1 month - 1 s)
billing_window_from(start) == <<start, AddOneMonth(start) - OneSecond>>

\* The instants the clock takes, in order:
\*   1  2024-01-15T10:00:00Z
\*   2  2024-01-31T12:00:00Z
\*   3  one tick after 2024-02-15T09:59:59Z, the end of the window that
\*      starts at instant 1: past that end and less than a second past it
\*   4  2024-02-15T10:00:00Z, that end + 1 s
\*   5  2024-04-20T00:00:00Z
\*   6  2024-05-31T23:59:59Z
\*   7  2024-07-01T00:00:00Z
TimePoint(i) ==
    CASE i = 1 -> FromTimestamp(UnixTime(2024, 1, 15, 36000))
      [] i = 2 -> FromTimestamp(UnixTime(2024, 1, 31, 43200))
      [] i = 3 -> FromTimestamp(UnixTime(2024, 2, 15, 35999)) + 1
      [] i = 4 -> FromTimestamp(UnixTime(2024, 2, 15, 36000))
      [] i = 5 -> FromTimestamp(UnixTime(2024, 4, 20, 0))
      [] i = 6 -> FromTimestamp(UnixTime(2024, 5, 31, 86399))
      [] OTHER -> FromTimestamp(UnixTime(2024, 7, 1, 0))

\* timezone.now() at position i of the clock.
Now(i) == TimePoint(i)

\* ------------------------------------------------------------------------
\* Tables
\* ------------------------------------------------------------------------
\* The request slots: two requests or webhook deliveries can be in flight.
Procs == {1, 2}

\* The one account of the model: CustomUser id 1 with this e-mail address.
UserId == 1
UserEmail == "athlete@example.com"

\* A Subscription row as Subscription.objects.get_or_create(user=user)
\* inserts it: the columns class Subscription declares (besides the key and
\* the user), at their field defaults.
DefaultRow ==
    [ plan |-> "free",
      interval |-> NULL,
      status |-> "inactive",
      stripe_customer_id |-> NULL,
      stripe_subscription_id |-> NULL,
      current_period_end |-> 0,
      cancel_at_period_end |-> FALSE ]

\* Model.save() without update_fields writes every declared column.
AllFields == DOMAIN DefaultRow

\* Columns of Subscription that ensure_period, stamp_free_trial,
\* reserve_credit and commit_credit read and save but class Subscription
\* does not declare: the rolling window, its usage counter and the trial
\* stamps (nullable timestamps, 0 for None; the counter starts at 0).  On
\* the declared columns alone every one of these functions raises
\* AttributeError at its first read, so the table is taken to have them.
UndeclaredRow ==
    [ current_period_start |-> 0,
      period_usage |-> 0,
      trial_start |-> 0,
      trial_end |-> 0 ]

\* The row get_or_create inserts into the table that has these columns
\* as well.
NewRow == DefaultRow @@ UndeclaredRow

\* The columns save() without update_fields writes in that table.
SavedFields == AllFields \cup DOMAIN UndeclaredRow

\* Model.save(update_fields=fields): the UPDATE writes the listed columns of
\* the in-memory object `obj` over the stored row `row`, no other column.
SaveFields(row, obj, fields) ==
    [f \in SavedFields |-> IF f \in fields THEN obj[f] ELSE row[f]]

\* Locals of an idle request slot.
NoLoc ==
    [ obj |-> NewRow,   \* the in-memory Subscription object
      now |-> 0,            \* the `now` ensure_period read on entry
      units |-> 0,          \* reserve_credit's `units` / ticket.units
      source |-> "none",    \* ticket.source
      purchase_id |-> 0,    \* ticket.purchase_id
      remaining |-> 0,      \* `remaining` as reserve_credit computed it
      base |-> 0,           \* period_usage as reserve_credit read it
      msg |-> "",           \* the handler's answer
      need |-> 0,           \* "Need {units}" of the refusal message
      have |-> 0,           \* "have {remaining}" of the refusal message
      pi |-> NULL,          \* payment_intent of a purchase about to be created
      amount |-> 0,
      ev |-> [kind |-> "none"],   \* the webhook event being handled
      response |-> 0,       \* HTTP status of the response, 0 before it
      failure |-> "none",   \* what went wrong in the request, if anything
      secret |-> NULL,      \* STRIPE_WEBHOOK_SECRET as the request read it
      sig |-> [key |-> NULL, body |-> [kind |-> "none"]],
                            \* the Stripe-Signature header of the request
      flow |-> "none",      \* the branch a view takes: "free" or "paid"
      at_period_end |-> FALSE,  \* at_period_end of a cancel request
      sub_id |-> NULL,      \* sub.stripe_subscription_id as a cancel
                            \* request read it
      changed |-> FALSE,    \* history: the view's request has changed the
                            \* Subscription table
      tx |-> <<>> ]         \* Subscription table with the writes the open
                            \* transaction has not committed yet

VARIABLES
    users,      \* ids of the registered users (CustomUser rows)
    subs,       \* Subscription table: user id -> row, for the users that have one
    purchases,  \* ReportPurchase table as committed: purchases[id] is the
                \* row with that id.  A row an open transaction has INSERTed
                \* has its id (loc[p].purchase_id) and enters the table when
                \* the transaction commits
    clock,      \* index of the current instant: timezone.now() = Now(clock)
    lock,       \* the request slot whose open transaction holds the lock of the
                \* Subscription row (select_for_update, or a write it has not
                \* committed), 0 if free
    pc,         \* position of every request slot in its handler
    loc,        \* locals of every request slot
    status_by,  \* history: the operation that last wrote the status column
    redelivered, \* history: the payment intents whose one-time checkout event
                 \* was handled again when their purchase row existed
    committed,   \* history: the units commit_credit has added to period_usage
                 \* through subscription tickets, in total
    provider     \* the payment provider's record of subscription sub_1: the
                 \* states it went through, the current one last; every
                 \* change is also the payload of a lifecycle event.  Empty
                 \* in the specifications that deliver events without
                 \* following the provider's record

vars == <<users, subs, purchases, clock, lock, pc, loc, status_by, redelivered, committed, provider>>

Init ==
    /\ users = {}
    /\ subs = <<>>
    /\ purchases = <<>>
    /\ clock = 1
    /\ lock = 0
    /\ pc = [p \in Procs |-> "idle"]
    /\ loc = [p \in Procs |-> NoLoc]
    /\ status_by = "none"
    /\ redelivered = {}
    /\ committed = 0
    /\ provider = <<>>

HasRow == UserId \in DOMAIN subs
Row == subs[UserId]

\* Subscription.objects.get_or_create(user=user): the table afterwards.
GetOrCreate(table) ==
    IF UserId \in DOMAIN table THEN table ELSE (UserId :> NewRow)

\* A row lock held by another transaction blocks an UPDATE of the row.
CanWrite(p) == lock = 0 \/ lock = p

\* get_or_create(user=user) returns: the row is stored, or no other
\* transaction holds an INSERT of it that it has not committed (the INSERT
\* of get_or_create waits for that transaction on the unique index of
\* user_id, and get_or_create then reads the row it committed).
CanGetOrCreate(p) == HasRow \/ CanWrite(p)

\* The Subscription table as the statements of request slot p see it: with
\* the writes of its open transaction, which holds the row lock from its
\* first write to its end.
TxView(p) == IF lock = p THEN loc[p].tx ELSE subs

Idle(p) == pc[p] = "idle"


\* ------------------------------------------------------------------------
\* users/subscription_limits.py
\* ------------------------------------------------------------------------

\* Mutant: every call finds no window.
NoWindow_Always(obj) == TRUE

\* ensure_period has a write to do: there is no window, or `now` is past it.
NoWindow(obj) == obj.current_period_start = 0 \/ obj.current_period_end = 0

NeedsRoll(obj, now) == ~NoWindow(obj) /\ now > obj.current_period_end

\* Mutant: a new window keeps the usage of the old one.
EnsureOnce_KeepUsage(obj, now) ==
    IF obj.current_period_start = 0 \/ obj.current_period_end = 0
    THEN LET w == billing_window_from(now)
         IN [obj EXCEPT !.current_period_start = w[1],
                        !.current_period_end = w[2]]
    ELSE LET new_start == obj.current_period_end + OneSecond
             new_end == AddOneMonth(new_start) - OneSecond
         IN [obj EXCEPT !.current_period_start = new_start,
                        !.current_period_end = new_end]

\* Mutant: the loop jumps to a window starting at `now` in one turn.
EnsureOnce_Jump(obj, now) ==
    LET w == billing_window_from(now)
    IN [obj EXCEPT !.current_period_start = w[1],
                   !.current_period_end = w[2],
                   !.period_usage = 0]

\* One write of ensure_period to the in-memory object: the first window, or
\* one turn of the roll-forward loop.
EnsureOnce(obj, now) ==
    IF NoWindow(obj)
    THEN LET w == billing_window_from(now)
         IN [obj EXCEPT !.current_period_start = w[1],
                        !.current_period_end = w[2],
                        !.period_usage = 0]
    ELSE LET new_start == obj.current_period_end + OneSecond
             new_end == AddOneMonth(new_start) - OneSecond
         IN [obj EXCEPT !.current_period_start = new_start,
                        !.current_period_end = new_end,
                        !.period_usage = 0]

WindowFields == {"current_period_start", "current_period_end", "period_usage"}

\* ensure_period(sub) called at instant `now` and run to its return: the
\* first window, or the roll-forward loop turn by turn.
RECURSIVE ensure_period(_, _)
ensure_period(obj, now) ==
    IF NoWindow(obj) THEN EnsureOnce(obj, now)
    ELSE IF NeedsRoll(obj, now) THEN ensure_period(EnsureOnce(obj, now), now)
    ELSE obj

Max0(n) == IF n > 0 THEN n ELSE 0

\* Mutant: the credit math forgets the usage of the window.
RemainingCredits_NoUsage(obj, now) ==
    IF obj.plan = "free"
    THEN IF obj.status = "trialing" /\ obj.trial_end # 0 /\ obj.trial_end >= now
         THEN TrialOnce
         ELSE 0
    ELSE MonthlyCap(obj.plan)

\* Mutant: one credit too few is reported.
RemainingCredits_OffByOne(obj, now) ==
    IF obj.plan = "free"
    THEN IF obj.status = "trialing" /\ obj.trial_end # 0 /\ obj.trial_end >= now
         THEN Max0(TrialOnce - obj.period_usage)
         ELSE 0
    ELSE Max0(MonthlyCap(obj.plan) - obj.period_usage - 1)

\* Mutant: the trial credit does not expire with trial_end.
RemainingCredits_TrialForever(obj, now) ==
    IF obj.plan = "free"
    THEN IF obj.status = "trialing"
         THEN Max0(TrialOnce - obj.period_usage)
         ELSE 0
    ELSE Max0(MonthlyCap(obj.plan) - obj.period_usage)

\* remaining_subscription_credits after its ensure_period call: the credit
\* math on the in-memory object at instant `now`.
RemainingCredits(obj, now) ==
    IF obj.plan = "free"
    THEN IF obj.status = "trialing" /\ obj.trial_end # 0 /\ obj.trial_end >= now
         THEN Max0(TrialOnce - obj.period_usage)
         ELSE 0
    ELSE Max0(MonthlyCap(obj.plan) - obj.period_usage)

\* Mutant: the trial lasts as long as the first window.
stamp_free_trial_Month(obj, now) ==
    LET w == billing_window_from(now)
    IN [obj EXCEPT !.status = "trialing",
                   !.trial_start = now,
                   !.trial_end = w[2],
                   !.current_period_start = w[1],
                   !.current_period_end = w[2],
                   !.period_usage = 0]

\* stamp_free_trial(sub) at instant `now`.
stamp_free_trial(obj, now) ==
    LET w == billing_window_from(now)
    IN [obj EXCEPT !.status = "trialing",
                   !.trial_start = now,
                   !.trial_end = now + FREE_TRIAL_DAYS * TicksPerDay,
                   !.current_period_start = w[1],
                   !.current_period_end = w[2],
                   !.period_usage = 0]

\* ------------------------------------------------------------------------
\* users/credit_service.py
\* ------------------------------------------------------------------------

\* Mutant: consumed purchases count as available.
Unconsumed_IncludesConsumed ==
    {i \in DOMAIN purchases : purchases[i].user = UserId}

\* ReportPurchase.objects.filter(user=user, consumed=False).order_by("id")
\* .first(): the id of the oldest unconsumed purchase of the user, 0 if none.
Unconsumed == {i \in DOMAIN purchases :
                 purchases[i].user = UserId /\ ~purchases[i].consumed}

\* Mutant: the newest unconsumed purchase is taken.
FirstUnconsumed_Newest ==
    IF Unconsumed = {} THEN 0
    ELSE CHOOSE i \in Unconsumed : \A j \in Unconsumed : i >= j

FirstUnconsumed ==
    IF Unconsumed = {} THEN 0
    ELSE CHOOSE i \in Unconsumed : \A j \in Unconsumed : i <= j

\* The tail of reserve_credit: the decision on the object ensure_period left.
ReserveDecide(p, obj, units) ==
    LET remaining == RemainingCredits(obj, Now(clock))
    IN IF remaining >= units
       THEN /\ pc' = [pc EXCEPT ![p] = "reserved"]
            /\ loc' = [loc EXCEPT ![p] =
                  [NoLoc EXCEPT !.units = units,
                                !.source = "subscription",
                                !.remaining = remaining,
                                !.base = obj.period_usage,
                                !.msg = "using subscription credits"]]
       ELSE /\ pc' = [pc EXCEPT ![p] = "denied"]
            /\ loc' = [loc EXCEPT ![p] =
                  [NoLoc EXCEPT !.units = units,
                                !.remaining = remaining,
                                !.base = obj.period_usage,
                                !.need = units,
                                !.have = remaining,
                                !.msg = "Not enough subscription credits"]]

\* reserve_credit(user, units) up to the query of the one-time purchases:
\* the refusal of units <= 0, the one_time ticket for the oldest
\* unconsumed purchase, or on to the subscription allowance.
ReserveStart(p, units) ==
    /\ Idle(p)
    /\ UserId \in users
    /\ IF units <= 0
       THEN /\ pc' = [pc EXCEPT ![p] = "denied"]
            /\ loc' = [loc EXCEPT ![p] =
                  [NoLoc EXCEPT !.units = units, !.msg = "Invalid match count."]]
       ELSE IF FirstUnconsumed # 0
       THEN /\ pc' = [pc EXCEPT ![p] = "reserved"]
            /\ loc' = [loc EXCEPT ![p] =
                  [NoLoc EXCEPT !.units = 1, !.source = "one_time",
                                !.purchase_id = FirstUnconsumed,
                                !.msg = "using one-time credit"]]
       ELSE /\ pc' = [pc EXCEPT ![p] = "r_sub"]
            /\ loc' = [loc EXCEPT ![p] = [NoLoc EXCEPT !.units = units]]
    /\ UNCHANGED <<users, subs, purchases, clock, lock, status_by, redelivered, committed, provider>>

\* The subscription allowance of reserve_credit: get_or_create of the row,
\* then remaining_subscription_credits, up to the first save of
\* ensure_period, or to the end of reserve_credit when ensure_period has
\* nothing to write.
ReserveSubscription(p) ==
    /\ pc[p] = "r_sub"
    /\ CanGetOrCreate(p)
    /\ LET table == GetOrCreate(subs)
           sub == table[UserId]
           now == Now(clock)
       IN /\ subs' = table
          /\ IF NoWindow(sub) \/ NeedsRoll(sub, now)
             THEN /\ pc' = [pc EXCEPT ![p] = "r_ensure"]
                  /\ loc' = [loc EXCEPT ![p] =
                        [NoLoc EXCEPT !.obj = sub, !.now = now,
                                      !.units = loc[p].units]]
             ELSE ReserveDecide(p, sub, loc[p].units)
    /\ UNCHANGED <<users, purchases, clock, lock, status_by, redelivered, committed, provider>>

\* One save of ensure_period (update_fields = the three window columns),
\* followed by the rest of reserve_credit when the loop ends there.
ReserveEnsure(p) ==
    /\ pc[p] = "r_ensure"
    /\ CanWrite(p)
    /\ LET obj == EnsureOnce(loc[p].obj, loc[p].now)
       IN /\ subs' = [subs EXCEPT ![UserId] = SaveFields(@, obj, WindowFields)]
          /\ IF NeedsRoll(obj, loc[p].now)
             THEN /\ loc' = [loc EXCEPT ![p].obj = obj]
                  /\ UNCHANGED pc
             ELSE ReserveDecide(p, obj, loc[p].units)
    /\ UNCHANGED <<users, purchases, clock, lock, status_by, redelivered, committed, provider>>

\* Mutant: the commit stamps the purchase whether or not it is consumed.
ConsumePurchase_Restamp(rp, now) ==
    [rp EXCEPT !.consumed = TRUE, !.consumed_at = now]

\* The one_time branch of commit_credit on the locked purchase row `rp`:
\* mark it consumed at `now` if it is not consumed yet.
ConsumePurchase(rp, now) ==
    IF rp.consumed THEN rp
    ELSE [rp EXCEPT !.consumed = TRUE, !.consumed_at = now]

\* Who holds the row lock after
\* Subscription.objects.select_for_update().get(user_id=...).
CommitLockHolder(p) == p

\* commit_credit(ticket): the one_time branch whole (one locked
\* read-check-write of the purchase row), or the locked read of the
\* subscription branch.
CommitStart(p) ==
    /\ pc[p] = "reserved"
    /\ loc[p].source = "subscription" => committed + loc[p].units <= MaxUsage
    /\ IF loc[p].source = "one_time"
       THEN LET id == loc[p].purchase_id
            IN /\ purchases' = [purchases EXCEPT
                                   ![id] = ConsumePurchase(@, Now(clock))]
               /\ pc' = [pc EXCEPT ![p] = "done"]
               /\ UNCHANGED <<users, subs, clock, lock, loc, status_by, redelivered, committed, provider>>
       ELSE /\ lock = 0
            /\ lock' = CommitLockHolder(p)
            /\ loc' = [loc EXCEPT ![p].obj = Row]
            /\ pc' = [pc EXCEPT ![p] = "c_write"]
            /\ UNCHANGED <<users, subs, purchases, clock, status_by, redelivered, committed, provider>>

\* update_fields of commit_credit's save.
CommitFields == {"period_usage"}

\* Mutant: the commit counts one unit whatever the ticket's units.
CommitWrite_OneUnit(p) ==
    /\ pc[p] = "c_write"
    /\ CanWrite(p)
    /\ LET obj == [loc[p].obj EXCEPT !.period_usage = @ + 1]
       IN subs' = [subs EXCEPT ![UserId] = SaveFields(@, obj, CommitFields)]
    /\ committed' = committed + loc[p].units
    /\ lock' = IF lock = p THEN 0 ELSE lock
    /\ pc' = [pc EXCEPT ![p] = "done"]
    /\ UNCHANGED <<users, purchases, clock, loc, status_by, redelivered, provider>>

\* sub.period_usage = (sub.period_usage or 0) + int(ticket.units);
\* sub.save(update_fields=["period_usage"]); the transaction ends.
CommitWrite(p) ==
    /\ pc[p] = "c_write"
    /\ CanWrite(p)
    /\ LET obj == [loc[p].obj EXCEPT !.period_usage = @ + loc[p].units]
       IN subs' = [subs EXCEPT ![UserId] = SaveFields(@, obj, CommitFields)]
    /\ committed' = committed + loc[p].units
    /\ lock' = IF lock = p THEN 0 ELSE lock
    /\ pc' = [pc EXCEPT ![p] = "done"]
    /\ UNCHANGED <<users, purchases, clock, loc, status_by, redelivered, provider>>

\* Mutant: a dropped one-time ticket forfeits its purchase.
Abandon_Forfeits(p) ==
    /\ pc[p] = "reserved"
    /\ pc' = [pc EXCEPT ![p] = "idle"]
    /\ loc' = [loc EXCEPT ![p] = NoLoc]
    /\ purchases' = IF loc[p].source = "one_time"
                    THEN [purchases EXCEPT ![loc[p].purchase_id].consumed = TRUE]
                    ELSE purchases
    /\ UNCHANGED <<users, subs, clock, lock, status_by, redelivered, committed, provider>>

\* The caller drops a ticket without committing it.
Abandon(p) ==
    /\ pc[p] = "reserved"
    /\ pc' = [pc EXCEPT ![p] = "idle"]
    /\ loc' = [loc EXCEPT ![p] = NoLoc]
    /\ UNCHANGED <<users, subs, purchases, clock, lock, status_by, redelivered, committed, provider>>

\* The request ends: the slot is free for the next request.
Return(p) ==
    /\ pc[p] \in {"denied", "done"}
    /\ pc' = [pc EXCEPT ![p] = "idle"]
    /\ loc' = [loc EXCEPT ![p] = NoLoc]
    /\ UNCHANGED <<users, subs, purchases, clock, lock, status_by, redelivered, committed, provider>>


\* ------------------------------------------------------------------------
\* users/views.py
\* ------------------------------------------------------------------------

\* The customer id stripe.Customer.create returns for the account.
OwnCustomer == "cus_1"

FreePlanFields == {"plan", "interval", "status", "stripe_subscription_id"}

\* The free-plan branch of RegisterView.post and
\* CreateCheckoutSessionView.post on the in-memory object.
ActivateFree(obj) ==
    [obj EXCEPT !.plan = "free", !.interval = NULL, !.status = "active",
                !.stripe_subscription_id = NULL]

\* The request of slot p has returned without an error of the provider.
ViewReturns(p) ==
    /\ pc' = [pc EXCEPT ![p] = "idle"]
    /\ loc' = [loc EXCEPT ![p] = NoLoc]

\* View `name` answers with the error `response`; `failure` names what
\* failed and `changed` tells whether its request has changed the
\* Subscription table.
ViewFails(p, name, changed, failure, response) ==
    /\ pc' = [pc EXCEPT ![p] = "responded"]
    /\ loc' = [loc EXCEPT ![p] =
          [NoLoc EXCEPT !.msg = name, !.changed = changed,
                        !.failure = failure, !.response = response]]

\* What the calls of the provider in the paid branch of a view may do:
\* "ok"; "customer_fails": stripe.Customer.create raises StripeError;
\* "price_fails": stripe.Price.list in get_price_id raises StripeError;
\* "no_price": the list is empty and get_price_id raises ValueError;
\* "session_fails": stripe.checkout.Session.create raises StripeError;
\* "invalid": no provider call after Customer.create, the plan or the
\* interval of the request is not one the view lists.
ProviderOutcomes ==
    {"ok", "customer_fails", "invalid", "price_fails", "no_price",
     "session_fails"}

\* The paid branch of view `name` ends by `outcome`, which is not "ok".
\* Both views answer 400 to a plan or interval they do not list.
\* RegisterView wraps the whole branch in try: it catches StripeError
\* (checkout_url None, 201) and answers 400 to the ValueError.
\* CreateCheckoutSessionView wraps get_price_id in `except ValueError`
\* (400) and Session.create in `except StripeError` (400): the StripeError
\* of Customer.create and of Price.list is caught nowhere (500).
CheckoutFails(p, name, changed, outcome) ==
    IF outcome = "invalid" THEN ViewFails(p, name, changed, "request", 400)
    ELSE IF outcome = "no_price"
    THEN ViewFails(p, name, changed, "price", 400)
    ELSE IF name = "RegisterView" THEN ViewReturns(p)
    ELSE ViewFails(p, name, changed, "provider",
                   IF outcome = "session_fails" THEN 400 ELSE 500)

\* sub, _ = Subscription.objects.get_or_create(user=user) of view `name`
\* and what the view does next: the free branch goes on to its save; the
\* paid branch calls stripe.Customer.create when the row has no customer
\* id, and get_price_id and stripe.checkout.Session.create when it has
\* one.
ViewRow(p, name, flow, outcome) ==
    LET table == GetOrCreate(subs)
        sub == table[UserId]
        waiting == [NoLoc EXCEPT !.msg = name, !.flow = flow,
                                 !.changed = (table # subs)]
    IN /\ CanGetOrCreate(p)
       /\ subs' = table
       /\ IF flow = "free"
          THEN /\ pc' = [pc EXCEPT ![p] = "v_free"]
               /\ loc' = [loc EXCEPT ![p] = waiting]
          ELSE IF sub.stripe_customer_id = NULL
          THEN /\ pc' = [pc EXCEPT ![p] = "v_customer"]
               /\ loc' = [loc EXCEPT ![p] = waiting]
          ELSE /\ outcome # "customer_fails"
               /\ IF outcome = "ok" THEN ViewReturns(p)
                  ELSE CheckoutFails(p, name, table # subs, outcome)

\* RegisterView.post up to serializer.save(): the user is committed; flow
\* is "none" (no plan sent), "free", or "paid" (type subscription or
\* one_time with a plan).
RegisterView(p, flow) ==
    /\ Idle(p)
    /\ UserId \notin users
    /\ users' = users \cup {UserId}
    /\ IF flow = "none"
       THEN UNCHANGED <<pc, loc>>
       ELSE /\ pc' = [pc EXCEPT ![p] = "v_row"]
            /\ loc' = [loc EXCEPT ![p] =
                  [NoLoc EXCEPT !.msg = "RegisterView", !.flow = flow]]
    /\ UNCHANGED <<subs, purchases, clock, lock, status_by, redelivered, committed, provider>>

\* The get_or_create of RegisterView.post, in the free branch or in the
\* paid branch.
RegisterGetOrCreate(p, outcome) ==
    /\ pc[p] = "v_row"
    /\ ViewRow(p, loc[p].msg, loc[p].flow, outcome)
    /\ UNCHANGED <<users, purchases, clock, lock, status_by, redelivered, committed, provider>>

\* CreateCheckoutSessionView.post up to its get_or_create, and to its end
\* when the row has a customer id already: flow is "free" or "paid"; the
\* checkout session itself lives at the provider.
CreateCheckoutSessionView(p, flow, outcome) ==
    /\ Idle(p)
    /\ UserId \in users
    /\ ViewRow(p, "CreateCheckoutSessionView", flow, outcome)
    /\ UNCHANGED <<users, purchases, clock, lock, status_by, redelivered, committed, provider>>

\* The free branch of both views after its get_or_create:
\* sub.save(update_fields=["plan", "interval", "status",
\* "stripe_subscription_id"]).  The four columns of the UPDATE are the four
\* the view has just assigned, so the statement writes the same values
\* whatever row get_or_create had returned.
ViewSaveFree(p) ==
    /\ pc[p] = "v_free"
    /\ CanWrite(p)
    /\ subs' = [subs EXCEPT ![UserId] =
                   SaveFields(@, ActivateFree(@), FreePlanFields)]
    /\ status_by' = loc[p].msg
    /\ ViewReturns(p)
    /\ UNCHANGED <<users, purchases, clock, lock, redelivered, committed, provider>>

\* "Ensure Stripe customer" of both views after a get_or_create that
\* returned a row without customer id: stripe.Customer.create returns and
\* sub.save(update_fields=["stripe_customer_id"]) stores the new id
\* (whatever the row holds by now), then get_price_id and
\* stripe.checkout.Session.create are called.  When Customer.create
\* raises, nothing is saved.
ViewEnsureCustomer(p, outcome) ==
    /\ pc[p] = "v_customer"
    /\ IF outcome = "customer_fails"
       THEN /\ CheckoutFails(p, loc[p].msg, loc[p].changed, outcome)
            /\ UNCHANGED subs
       ELSE /\ CanWrite(p)
            /\ subs' = [subs EXCEPT ![UserId] =
                  SaveFields(@, [@ EXCEPT !.stripe_customer_id = OwnCustomer],
                             {"stripe_customer_id"})]
            /\ IF outcome = "ok" THEN ViewReturns(p)
               ELSE CheckoutFails(p, loc[p].msg, TRUE, outcome)
    /\ UNCHANGED <<users, purchases, clock, lock, status_by, redelivered, committed, provider>>

\* The two optimistic local updates of CancelSubscriptionView.post on the
\* in-memory object.
CancelAtPeriodEnd(obj) == [obj EXCEPT !.cancel_at_period_end = TRUE]

\* Mutant: the immediate cancel marks the row past_due.
CancelNow_PastDue(obj) ==
    [obj EXCEPT !.status = "past_due", !.cancel_at_period_end = FALSE]

\* Mutant: the immediate cancel puts the row back to inactive.
CancelNow_Inactive(obj) ==
    [obj EXCEPT !.status = "inactive", !.cancel_at_period_end = FALSE]

CancelNow(obj) ==
    [obj EXCEPT !.status = "canceled", !.cancel_at_period_end = FALSE]

\* The subscription the variable `provider` is the record of.
ProviderSubId == "sub_1"

\* The provider's record after stripe.Subscription.modify(sub_id,
\* cancel_at_period_end=True) or stripe.Subscription.delete(sub_id) has
\* succeeded: a change of the subscription the record is about is its new
\* last state.
ProviderCancels(record, sub_id, at_period_end) ==
    IF record = <<>> \/ sub_id # ProviderSubId THEN record
    ELSE LET last == record[Len(record)]
             next == IF at_period_end
                     THEN [last EXCEPT !.cancel_at_period_end = TRUE]
                     ELSE [last EXCEPT !.status = "canceled"]
         IN IF next = last THEN record ELSE Append(record, next)

\* CancelSubscriptionView.post up to its provider call: the row is read
\* through request.user.subscription; without a row or a subscription id
\* the answer is 400 and nothing else happens.
CancelSubscriptionView(p, at_period_end) ==
    /\ Idle(p)
    /\ UserId \in users
    /\ HasRow
    /\ Row.stripe_subscription_id # NULL
    /\ pc' = [pc EXCEPT ![p] = "v_cancel"]
    /\ loc' = [loc EXCEPT ![p] =
          [NoLoc EXCEPT !.msg = "CancelSubscriptionView",
                        !.sub_id = Row.stripe_subscription_id,
                        !.at_period_end = at_period_end]]
    /\ UNCHANGED <<users, subs, purchases, clock, lock, status_by, redelivered, committed, provider>>

\* stripe.Subscription.modify / stripe.Subscription.delete returns
\* (stripe_ok): the subscription has changed at the provider and the view
\* goes on to its save; or the call raises StripeError (caught: 400).  The
\* provider refuses to change a subscription it has canceled.
CancelSubscriptionReturns(p, stripe_ok) ==
    /\ pc[p] = "v_cancel"
    /\ IF ~stripe_ok
       THEN /\ ViewFails(p, loc[p].msg, FALSE, "provider", 400)
            /\ UNCHANGED provider
       ELSE LET record == ProviderCancels(provider, loc[p].sub_id,
                                          loc[p].at_period_end)
            IN /\ Len(record) <= MaxProviderStates
               /\ (provider # <<>> /\ loc[p].sub_id = ProviderSubId)
                     => provider[Len(provider)].status # "canceled"
               /\ provider' = record
               /\ pc' = [pc EXCEPT ![p] = "v_cancel_save"]
               /\ UNCHANGED loc
    /\ UNCHANGED <<users, subs, purchases, clock, lock, status_by, redelivered, committed>>

\* The optimistic local update of CancelSubscriptionView.post after the
\* provider call: sub.save(update_fields=["cancel_at_period_end"]) or
\* sub.save(update_fields=["status", "cancel_at_period_end"]).  The columns
\* of the UPDATE are the ones the view has just assigned on the object it
\* read before the call, so the statement writes them on the row whatever
\* it holds by now.
CancelSubscriptionSave(p) ==
    /\ pc[p] = "v_cancel_save"
    /\ CanWrite(p)
    /\ IF loc[p].at_period_end
       THEN /\ subs' = [subs EXCEPT ![UserId] =
                   SaveFields(@, CancelAtPeriodEnd(@),
                              {"cancel_at_period_end"})]
            /\ UNCHANGED status_by
       ELSE /\ subs' = [subs EXCEPT ![UserId] =
                   SaveFields(@, CancelNow(@),
                              {"status", "cancel_at_period_end"})]
            /\ status_by' = "CancelSubscriptionView"
    /\ ViewReturns(p)
    /\ UNCHANGED <<users, purchases, clock, lock, redelivered, committed, provider>>

\* CurrentSubscriptionView.get: only its get_or_create writes.
CurrentSubscriptionView ==
    /\ UserId \in users
    /\ HasRow \/ lock = 0
    /\ subs' = GetOrCreate(subs)
    /\ UNCHANGED <<users, purchases, clock, lock, pc, loc, status_by, redelivered, committed, provider>>

TrialFields ==
    {"status", "trial_start", "trial_end", "current_period_start",
     "current_period_end", "period_usage"}

\* The local "start free trial" action: stamp_free_trial on the user's row,
\* saved.  Its caller is described as the edge inactive -> trialing, so it
\* acts on a row that is still inactive.
StartFreeTrial ==
    /\ UserId \in users
    /\ lock = 0
    /\ HasRow => Row.status = "inactive"
    /\ subs' = [GetOrCreate(subs) EXCEPT ![UserId] =
                   SaveFields(@, stamp_free_trial(@, Now(clock)), TrialFields)]
    /\ status_by' = "stamp_free_trial"
    /\ UNCHANGED <<users, purchases, clock, lock, pc, loc, redelivered, committed, provider>>

\* The request slot has sent its response and is free again.
Respond(p) ==
    /\ pc[p] = "responded"
    /\ pc' = [pc EXCEPT ![p] = "idle"]
    /\ loc' = [loc EXCEPT ![p] = NoLoc]
    /\ UNCHANGED <<users, subs, purchases, clock, lock, status_by, redelivered, committed, provider>>

\* Time passes.
Tick ==
    /\ clock < MaxTime
    /\ clock' = clock + 1
    /\ UNCHANGED <<users, subs, purchases, lock, pc, loc, status_by, redelivered, committed, provider>>


\* ------------------------------------------------------------------------
\* users/webhooks.py
\* ------------------------------------------------------------------------

\* A value Python treats as false in `if x` / `x or y`: None or "".
Falsy(x) == x = NULL \/ x = ""

Or(x, y) == IF Falsy(x) THEN y ELSE x

\* The price of the first subscription item as the provider sends it;
\* has_price is FALSE for a subscription without items (price = {}).
PriceEssMonth ==
    [has_price |-> TRUE, lookup_key |-> "essentials_month",
     unit_amount |-> 399, interval |-> "month"]
PricePreYear ==
    [has_price |-> TRUE, lookup_key |-> "precision_year",
     unit_amount |-> 7670, interval |-> "year"]
PriceLegacy ==
    [has_price |-> TRUE, lookup_key |-> NULL,
     unit_amount |-> 799, interval |-> "month"]
PriceNone ==
    [has_price |-> FALSE, lookup_key |-> NULL,
     unit_amount |-> 0, interval |-> NULL]

\* lookup_key.split("_", 1) of the lookup keys of the model, as
\* <<plan, interval>>; <<NULL, NULL>> for a key without "_" (or no key).
SplitLookupKey(key) ==
    CASE key = "essentials_month" -> <<"essentials", "month">>
      [] key = "essentials_year" -> <<"essentials", "year">>
      [] key = "precision_month" -> <<"precision", "month">>
      [] key = "precision_year" -> <<"precision", "year">>
      [] key = "pdf_report" -> <<"pdf", "report">>
      [] key = "essentials_" -> <<"essentials", "">>
      [] key = "_year" -> <<"", "year">>
      [] OTHER -> <<NULL, NULL>>

\* Session metadata: the keys the views set; NULL for an absent key.
NoMeta == [user_id |-> 0, plan |-> NULL, interval |-> NULL]

MetaTruthy(meta) == meta.user_id # 0 \/ meta.plan # NULL \/ meta.interval # NULL

\* The plan the price-amount table gives, NULL when the amount is not listed.
PlanOfAmount(unit) ==
    CASE unit \in {399, 3840} -> "essentials"
      [] unit \in {799, 7670} -> "precision"
      [] OTHER -> NULL

\* Mutant: the session metadata is consulted before the lookup key.
plan_interval_from_subscription_MetaFirst(price, meta) ==
    LET k == SplitLookupKey(price.lookup_key)
        plan1 == IF MetaTruthy(meta) THEN meta.plan ELSE NULL
        interval1 == IF MetaTruthy(meta) THEN meta.interval ELSE NULL
        plan2 == Or(plan1, k[1])
        interval2 == Or(interval1, k[2])
        usePrice == (Falsy(plan2) \/ Falsy(interval2)) /\ price.has_price
        listed == PlanOfAmount(price.unit_amount) # NULL
        plan3 == IF usePrice /\ listed
                 THEN Or(plan2, PlanOfAmount(price.unit_amount))
                 ELSE plan2
        interval3 == IF usePrice THEN Or(interval2, price.interval) ELSE interval2
    IN <<plan3, interval3>>

\* _plan_interval_from_subscription(stripe_sub, session_meta) as
\* <<plan, interval>>, NULL for None.
plan_interval_from_subscription(price, meta) ==
    LET k == SplitLookupKey(price.lookup_key)
        plan1 == k[1]
        interval1 == k[2]
        useMeta == (Falsy(plan1) \/ Falsy(interval1)) /\ MetaTruthy(meta)
        plan2 == IF useMeta THEN Or(plan1, meta.plan) ELSE plan1
        interval2 == IF useMeta THEN Or(interval1, meta.interval) ELSE interval1
        usePrice == (Falsy(plan2) \/ Falsy(interval2)) /\ price.has_price
        listed == PlanOfAmount(price.unit_amount) # NULL
        plan3 == IF usePrice /\ listed
                 THEN Or(plan2, PlanOfAmount(price.unit_amount))
                 ELSE plan2
        interval3 == IF usePrice THEN Or(interval2, price.interval) ELSE interval2
    IN <<plan3, interval3>>

\* A metadata.user_id that is not a number (such as "abc"):
\* CustomUser.objects.get(id=...) raises ValueError for it, which
\* _find_user_for_session does not catch.
MalformedId == -1

FindUserRaises(session) == session.meta.user_id = MalformedId

\* _find_user_for_session: is the session's user found?  By
\* metadata.user_id when it is set; when no user has that id
\* (DoesNotExist is caught), or none is set, by the e-mail address.  The
\* ValueError of a malformed id ends the lookup: the e-mail address is
\* never tried.
FindUserForSession(session) ==
    /\ ~FindUserRaises(session)
    /\ \/ (session.meta.user_id # 0 /\ session.meta.user_id \in users)
       \/ (session.email = UserEmail /\ UserId \in users)

\* cpe_unix = stripe_sub.get("current_period_end");
\* datetime.fromtimestamp(cpe_unix, tz=timezone.utc) if cpe_unix else None
PeriodEndOf(stripe_sub) ==
    IF stripe_sub.current_period_end # 0
    THEN FromTimestamp(stripe_sub.current_period_end)
    ELSE 0

\* The checkout.session.completed handler in subscription mode on the
\* in-memory object, given the subscription the provider returned.
CheckoutApply(obj, session, stripe_sub) ==
    LET pi == plan_interval_from_subscription(stripe_sub.price, session.meta)
    IN [obj EXCEPT
          !.stripe_customer_id =
              IF session.customer # NULL THEN session.customer ELSE @,
          !.plan = Or(pi[1], Or(@, "free")),
          !.interval = pi[2],
          !.stripe_subscription_id = session.subscription,
          !.status = stripe_sub.status,
          !.current_period_end = PeriodEndOf(stripe_sub),
          !.cancel_at_period_end = stripe_sub.cancel_at_period_end]

\* Mutant: a deleted event keeps the status of its payload.
LifecycleApply_PayloadWins(obj, etype, stripe_sub) ==
    IF etype = "customer.subscription.deleted"
    THEN [obj EXCEPT !.plan = "free", !.interval = NULL,
                     !.stripe_subscription_id = NULL,
                     !.status = stripe_sub.status,
                     !.current_period_end = PeriodEndOf(stripe_sub),
                     !.cancel_at_period_end = stripe_sub.cancel_at_period_end]
    ELSE [obj EXCEPT !.status = stripe_sub.status,
                     !.current_period_end = PeriodEndOf(stripe_sub),
                     !.cancel_at_period_end = stripe_sub.cancel_at_period_end]

\* Mutant: the handler flips the cancel flag of the row instead of copying
\* the event's.
LifecycleApply_Flip(obj, etype, stripe_sub) ==
    [obj EXCEPT !.status = IF etype = "customer.subscription.deleted"
                           THEN "canceled" ELSE stripe_sub.status,
                !.current_period_end = PeriodEndOf(stripe_sub),
                !.cancel_at_period_end = ~@]

\* Mutant: created/updated also link the row to the event's subscription.
LifecycleApply_Relink(obj, etype, stripe_sub) ==
    IF etype = "customer.subscription.deleted"
    THEN [obj EXCEPT !.plan = "free", !.interval = NULL,
                     !.stripe_subscription_id = NULL, !.status = "canceled",
                     !.current_period_end = PeriodEndOf(stripe_sub),
                     !.cancel_at_period_end = stripe_sub.cancel_at_period_end]
    ELSE [obj EXCEPT !.stripe_subscription_id = stripe_sub.id,
                     !.status = stripe_sub.status,
                     !.current_period_end = PeriodEndOf(stripe_sub),
                     !.cancel_at_period_end = stripe_sub.cancel_at_period_end]

\* The subscription lifecycle handler on the in-memory object.
LifecycleApply(obj, etype, stripe_sub) ==
    LET pi == plan_interval_from_subscription(stripe_sub.price, NoMeta)
        upd == [obj EXCEPT
                  !.plan = IF Falsy(pi[1]) THEN @ ELSE pi[1],
                  !.interval = IF Falsy(pi[2]) THEN @ ELSE pi[2],
                  !.status = stripe_sub.status,
                  !.current_period_end = PeriodEndOf(stripe_sub),
                  !.cancel_at_period_end = stripe_sub.cancel_at_period_end]
    IN IF etype = "customer.subscription.deleted"
       THEN [upd EXCEPT !.plan = "free", !.interval = NULL,
                        !.stripe_subscription_id = NULL,
                        !.status = "canceled"]
       ELSE upd

\* The invoice.payment_succeeded handler on the in-memory object.
InvoiceSucceededApply(obj, stripe_sub) ==
    [obj EXCEPT !.status = stripe_sub.status,
                !.current_period_end = PeriodEndOf(stripe_sub),
                !.cancel_at_period_end = stripe_sub.cancel_at_period_end]

\* Subscription.objects.filter(stripe_subscription_id=sub_id).first():
\* does it find the row? (filter(field=None) is IS NULL.)
FoundBySubscription(sub_id) ==
    HasRow /\ Row.stripe_subscription_id = sub_id

FoundByCustomer(customer_id) ==
    HasRow /\ customer_id # NULL /\ Row.stripe_customer_id = customer_id

\* Mutant: the uniqueness check never finds the row.
PurchaseExists_Never(pi) == FALSE

\* ReportPurchase.objects.filter(stripe_payment_intent=pi).exists()
PurchaseExists(pi) == \E i \in DOMAIN purchases : purchases[i].stripe_payment_intent = pi

\* ReportPurchase.objects.create: the declared columns user,
\* stripe_payment_intent and amount, and the consumed flag and stamp that
\* the credit service filters on and saves (not declared by the model
\* class; a new row is unconsumed).
NewPurchase(pi, amount) ==
    [user |-> UserId, stripe_payment_intent |-> pi, amount |-> amount,
     consumed |-> FALSE, consumed_at |-> 0]


\* Mutant: the writes of a transaction that raised are kept.
TxEnd_Commits(stored, tx, raised) == tx

\* The end of `with transaction.atomic()`: the table afterwards, given the
\* stored table, the table as the transaction wrote it, and whether the
\* block raised.
TxEnd(stored, tx, raised) == IF raised THEN stored ELSE tx

\* The subscription object of an event whose handling fetches none.
NoFetch ==
    [status |-> "incomplete", current_period_end |-> 0,
     cancel_at_period_end |-> FALSE, price |-> PriceNone]

\* stripe_webhook returns without having found whom the event is about:
\* "unable to match user" / "ignoring" with 200, or the 500 of an
\* exception nothing catches.
Unmatched(p, etype, ev, response) ==
    /\ pc' = [pc EXCEPT ![p] = "responded"]
    /\ loc' = [loc EXCEPT ![p] =
          [NoLoc EXCEPT !.msg = etype, !.ev = ev,
                        !.failure = "unmatched", !.response = response]]

\* sub_rec.save() of the checkout, lifecycle and invoice.payment_succeeded
\* handlers: Model.save() without update_fields writes the row whole from
\* the in-memory object.  In the checkout handler it is the last statement
\* of the transaction, which commits and releases its row lock.
WebhookSave(p) ==
    /\ pc[p] = "wh_save"
    /\ CanWrite(p)
    /\ subs' = TxEnd(subs,
                     [TxView(p) EXCEPT ![UserId] =
                         SaveFields(@, loc[p].obj, SavedFields)],
                     FALSE)
    /\ status_by' = loc[p].msg
    /\ lock' = IF lock = p THEN 0 ELSE lock
    /\ pc' = [pc EXCEPT ![p] = "idle"]
    /\ loc' = [loc EXCEPT ![p] = NoLoc]
    /\ UNCHANGED <<users, purchases, clock, redelivered, committed, provider>>

\* The id the next INSERT into ReportPurchase gets: the ids come from the
\* sequence of the table in the order of the INSERTs, those of the rows that
\* open transactions have inserted and not committed yet included.
NextPurchaseId ==
    Only({ IF ids = {} THEN 1
           ELSE 1 + (CHOOSE i \in ids : \A j \in ids : i >= j) :
           ids \in { DOMAIN purchases
                     \cup { loc[q].purchase_id :
                              q \in {r \in Procs : pc[r] = "wh_commit"} } } })

\* ReportPurchase.objects.create(...): the INSERT gives the row its id; the
\* row is the transaction's own until it commits.
WebhookCreatePurchase(p) ==
    /\ pc[p] = "wh_create"
    /\ pc' = [pc EXCEPT ![p] = "wh_commit"]
    /\ loc' = [loc EXCEPT ![p].purchase_id = NextPurchaseId]
    /\ UNCHANGED <<users, subs, purchases, clock, lock, status_by, redelivered, committed, provider>>

\* The end of the transaction of the checkout handler after the INSERT of
\* the purchase: the COMMIT shows the row to the other requests.
WebhookCommitPurchase(p) ==
    /\ pc[p] = "wh_commit"
    /\ purchases' = (loc[p].purchase_id :> NewPurchase(loc[p].pi, loc[p].amount))
                        @@ purchases
    /\ subs' = TxEnd(subs, TxView(p), FALSE)
    /\ lock' = IF lock = p THEN 0 ELSE lock
    /\ pc' = [pc EXCEPT ![p] = "idle"]
    /\ loc' = [loc EXCEPT ![p] = NoLoc]
    /\ UNCHANGED <<users, clock, status_by, redelivered, committed, provider>>

\* stripe_webhook on checkout.session.completed up to
\* Subscription.objects.get_or_create(user=user), the first statement of
\* its transaction: the row is read into sub_rec, or inserted (the INSERT
\* is the transaction's own until it commits, and holds the lock of the
\* row).  A session that matches no user is answered at once: 200, or the
\* 500 of the ValueError of a malformed metadata.user_id.
WebhookCheckout(p, session) ==
    /\ Idle(p)
    /\ LET ev == [kind |-> "checkout", session |-> session,
                 stripe_sub |-> NoFetch]
       IN IF ~FindUserForSession(session)
          THEN /\ Unmatched(p, "checkout.session.completed", ev,
                            IF FindUserRaises(session) THEN 500 ELSE 200)
               /\ UNCHANGED lock
          ELSE /\ CanGetOrCreate(p)
               /\ lock' = IF HasRow THEN lock ELSE p
               /\ pc' = [pc EXCEPT ![p] = "wh_customer"]
               /\ loc' = [loc EXCEPT ![p] =
                     [NoLoc EXCEPT
                        !.obj = GetOrCreate(subs)[UserId],
                        !.tx = IF HasRow THEN <<>> ELSE GetOrCreate(subs),
                        !.msg = "checkout.session.completed",
                        !.ev = ev]]
    /\ UNCHANGED <<users, subs, purchases, clock, status_by, redelivered, committed, provider>>

\* The checkout handler after get_or_create: the UPDATE of
\* stripe_customer_id when the session names another customer than sub_rec
\* holds (sub_rec.save(update_fields=["stripe_customer_id"]), which takes
\* the lock of the row), then by mode: subscription mode goes on to
\* stripe.Subscription.retrieve, or returns when the session has no
\* subscription id; payment mode makes the uniqueness check of the payment
\* intent and goes on to create the purchase, or returns; any other mode
\* returns.  Returning ends the transaction: it commits.
WebhookCustomer(p) ==
    /\ pc[p] = "wh_customer"
    /\ LET session == loc[p].ev.session
           sub == loc[p].obj
           custChange == session.customer # NULL
                         /\ sub.stripe_customer_id # session.customer
           obj == IF custChange
                  THEN [sub EXCEPT !.stripe_customer_id = session.customer]
                  ELSE sub
           tx == IF custChange
                 THEN [TxView(p) EXCEPT ![UserId] =
                          SaveFields(@, obj, {"stripe_customer_id"})]
                 ELSE TxView(p)
           creates == /\ session.mode = "payment"
                      /\ session.payment_intent # NULL
                      /\ ~PurchaseExists(session.payment_intent)
           fetches == /\ session.mode = "subscription"
                      /\ session.subscription # NULL
       IN /\ custChange => CanWrite(p)
          /\ IF fetches \/ creates
             THEN /\ lock' = IF custChange THEN p ELSE lock
                  /\ pc' = [pc EXCEPT ![p] =
                               IF fetches THEN "wh_fetch" ELSE "wh_create"]
                  /\ loc' = [loc EXCEPT
                        ![p].obj = obj,
                        ![p].tx = IF custChange \/ lock = p THEN tx ELSE <<>>,
                        ![p].pi = IF creates THEN session.payment_intent
                                  ELSE NULL,
                        ![p].amount = IF creates THEN session.amount_total
                                      ELSE 0]
                  /\ UNCHANGED <<subs, redelivered>>
             ELSE /\ subs' = TxEnd(subs, tx, FALSE)
                  /\ lock' = IF lock = p THEN 0 ELSE lock
                  /\ redelivered' =
                       IF session.mode = "payment"
                          /\ session.payment_intent # NULL
                       THEN redelivered \cup {session.payment_intent}
                       ELSE redelivered
                  /\ pc' = [pc EXCEPT ![p] = "idle"]
                  /\ loc' = [loc EXCEPT ![p] = NoLoc]
    /\ UNCHANGED <<users, purchases, clock, status_by, committed, provider>>

\* stripe.Subscription.retrieve(sub_id, expand=["items.data.price"]) of the
\* checkout handler returns stripe_sub, and the handler assigns the
\* fields of sub_rec it is going to save.
WebhookFetch(p, stripe_sub) ==
    /\ pc[p] = "wh_fetch"
    /\ pc' = [pc EXCEPT ![p] = "wh_save"]
    /\ loc' = [loc EXCEPT
          ![p].obj = CheckoutApply(loc[p].obj, loc[p].ev.session, stripe_sub),
          ![p].ev.stripe_sub = stripe_sub]
    /\ UNCHANGED <<users, subs, purchases, clock, lock, status_by, redelivered, committed, provider>>

\* The checkout handler raises inside its transaction:
\* stripe.Subscription.retrieve (failure = "provider"), or sub_rec.save() or
\* ReportPurchase.objects.create (failure = "write").  The block ends by
\* the exception, which nothing catches: the response is a 500.
CheckoutRaises(p, failure) ==
    /\ pc[p] \in {"wh_fetch", "wh_save", "wh_create"}
    /\ loc[p].ev.kind = "checkout"
    /\ failure = "provider" <=> pc[p] = "wh_fetch"
    /\ subs' = TxEnd(subs, TxView(p), TRUE)
    /\ lock' = IF lock = p THEN 0 ELSE lock
    /\ pc' = [pc EXCEPT ![p] = "responded"]
    /\ loc' = [loc EXCEPT ![p].failure = failure, ![p].response = 500]
    /\ UNCHANGED <<users, purchases, clock, status_by, redelivered, committed, provider>>

\* The lifecycle handler has found its row `row`: it assigns the fields of
\* the object it is going to save.
LifecycleFound(p, ev, row) ==
    /\ pc' = [pc EXCEPT ![p] = "wh_save"]
    /\ loc' = [loc EXCEPT ![p] =
          [NoLoc EXCEPT
             !.obj = LifecycleApply(row, ev.etype, ev.stripe_sub),
             !.msg = ev.etype,
             !.ev = ev]]

\* stripe_webhook on customer.subscription.created/updated/deleted up to
\* its first lookup, Subscription.objects.filter(stripe_subscription_id=
\* sub_id).first().  customer_email is the e-mail address the provider
\* holds of the customer of the subscription, NULL when it holds none or
\* stripe.Customer.retrieve raises (which is caught).  Without a row and
\* without a customer id the event is ignored: 200.
WebhookLifecycle(p, etype, stripe_sub, customer_email) ==
    /\ Idle(p)
    /\ LET ev == [kind |-> "lifecycle", etype |-> etype,
                 stripe_sub |-> stripe_sub,
                 customer_email |-> customer_email]
       IN IF FoundBySubscription(stripe_sub.id)
          THEN LifecycleFound(p, ev, Row)
          ELSE IF stripe_sub.customer = NULL
          THEN Unmatched(p, etype, ev, 200)
          ELSE /\ pc' = [pc EXCEPT ![p] = "wh_by_customer"]
               /\ loc' = [loc EXCEPT ![p] =
                     [NoLoc EXCEPT !.msg = etype, !.ev = ev]]
    /\ UNCHANGED <<users, subs, purchases, clock, lock, status_by, redelivered, committed, provider>>

\* The second lookup of the lifecycle handler:
\* Subscription.objects.filter(stripe_customer_id=customer_id).first().
WebhookLifecycleByCustomer(p) ==
    /\ pc[p] = "wh_by_customer"
    /\ IF FoundByCustomer(loc[p].ev.stripe_sub.customer)
       THEN LifecycleFound(p, loc[p].ev, Row)
       ELSE /\ pc' = [pc EXCEPT ![p] = "wh_by_email"]
            /\ UNCHANGED loc
    /\ UNCHANGED <<users, subs, purchases, clock, lock, status_by, redelivered, committed, provider>>

\* The third lookup of the lifecycle handler: stripe.Customer.retrieve,
\* the user of the customer's e-mail address, and
\* Subscription.objects.get_or_create(user=user,
\* defaults={"stripe_customer_id": customer_id}), whose INSERT is committed
\* at once (no transaction is open).  Without a user the event is ignored:
\* 200.
WebhookLifecycleByEmail(p) ==
    /\ pc[p] = "wh_by_email"
    /\ LET ev == loc[p].ev
           table == IF HasRow THEN subs
                    ELSE (UserId :> [NewRow EXCEPT
                             !.stripe_customer_id = ev.stripe_sub.customer])
       IN IF ev.customer_email = UserEmail /\ UserId \in users
          THEN /\ CanGetOrCreate(p)
               /\ subs' = table
               /\ LifecycleFound(p, ev, table[UserId])
          ELSE /\ Unmatched(p, ev.etype, ev, 200)
               /\ UNCHANGED subs
    /\ UNCHANGED <<users, purchases, clock, lock, status_by, redelivered, committed, provider>>

\* stripe_webhook on invoice.payment_succeeded up to its lookup of the row,
\* Subscription.objects.filter(stripe_subscription_id=sub_id).first().
\* Without a subscription id or without a row nothing more is done.
WebhookInvoiceSucceeded(p, sub_id) ==
    /\ Idle(p)
    /\ IF sub_id # NULL /\ FoundBySubscription(sub_id)
       THEN /\ pc' = [pc EXCEPT ![p] = "wh_invoice_fetch"]
            /\ loc' = [loc EXCEPT ![p] =
                  [NoLoc EXCEPT !.obj = Row,
                                !.msg = "invoice.payment_succeeded",
                                !.ev = [kind |-> "invoice.payment_succeeded",
                                        sub_id |-> sub_id,
                                        stripe_sub |-> NoFetch]]]
            /\ UNCHANGED <<users, subs, purchases, clock, lock, status_by, redelivered, committed, provider>>
       ELSE UNCHANGED vars

\* stripe.Subscription.retrieve(sub_id, expand=["items.data.price"]) of the
\* invoice.payment_succeeded handler returns stripe_sub, and the handler
\* assigns the fields of the sub_rec it read before the call; `fetched` is
\* FALSE when the call raises (caught and logged: nothing is saved).
WebhookInvoiceFetch(p, fetched, stripe_sub) ==
    /\ pc[p] = "wh_invoice_fetch"
    /\ IF fetched
       THEN /\ pc' = [pc EXCEPT ![p] = "wh_save"]
            /\ loc' = [loc EXCEPT
                  ![p].obj = InvoiceSucceededApply(loc[p].obj, stripe_sub),
                  ![p].ev.stripe_sub = stripe_sub]
       ELSE /\ pc' = [pc EXCEPT ![p] = "idle"]
            /\ loc' = [loc EXCEPT ![p] = NoLoc]
    /\ UNCHANGED <<users, subs, purchases, clock, lock, status_by, redelivered, committed, provider>>

\* stripe_webhook on invoice.payment_failed up to its save: the row is
\* looked up by the subscription id of the invoice.
WebhookInvoiceFailed(p, sub_id) ==
    /\ Idle(p)
    /\ IF FoundBySubscription(sub_id)
       THEN /\ pc' = [pc EXCEPT ![p] = "wh_past_due"]
            /\ loc' = [loc EXCEPT ![p] =
                  [NoLoc EXCEPT !.obj = [Row EXCEPT !.status = "past_due"],
                                !.msg = "invoice.payment_failed",
                                !.ev = [kind |-> "invoice.payment_failed",
                                        sub_id |-> sub_id]]]
            /\ UNCHANGED <<users, subs, purchases, clock, lock, status_by, redelivered, committed, provider>>
       ELSE UNCHANGED vars

\* sub_rec.save(update_fields=["status"]) of the invoice.payment_failed
\* handler.
WebhookSaveStatus(p) ==
    /\ pc[p] = "wh_past_due"
    /\ CanWrite(p)
    /\ subs' = [subs EXCEPT ![UserId] = SaveFields(@, loc[p].obj, {"status"})]
    /\ status_by' = loc[p].msg
    /\ pc' = [pc EXCEPT ![p] = "idle"]
    /\ loc' = [loc EXCEPT ![p] = NoLoc]
    /\ UNCHANGED <<users, purchases, clock, lock, redelivered, committed, provider>>


\* stripe_webhook on invoice.payment_succeeded for a row it has found, when
\* stripe.Subscription.retrieve (failure = "provider") or sub_rec.save()
\* (failure = "write") raises: the exception is caught and logged, the
\* response is the 200 of the end of the branch.
InvoiceSucceededRaises(p, failure) ==
    /\ pc[p] \in {"wh_invoice_fetch", "wh_save"}
    /\ loc[p].msg = "invoice.payment_succeeded"
    /\ failure = "provider" <=> pc[p] = "wh_invoice_fetch"
    /\ pc' = [pc EXCEPT ![p] = "responded"]
    /\ loc' = [loc EXCEPT ![p].failure = failure, ![p].response = 200]
    /\ UNCHANGED <<users, subs, purchases, clock, lock, status_by, redelivered, committed, provider>>


\* The tables <<subs, purchases>> a whole run of stripe_webhook leaves when
\* it handles an event from the current state with no other request in
\* between and every provider fetch succeeding.  sub.save() writes every
\* column, so the saved object becomes the row.
CheckoutOutcome(session, stripe_sub) ==
    IF ~FindUserForSession(session) THEN <<subs, purchases>>
    ELSE LET table == GetOrCreate(subs)
             sub == table[UserId]
             withCust == IF session.customer # NULL
                            /\ sub.stripe_customer_id # session.customer
                         THEN [table EXCEPT ![UserId].stripe_customer_id =
                                                session.customer]
                         ELSE table
         IN IF session.mode = "subscription"
            THEN IF session.subscription = NULL
                 THEN <<withCust, purchases>>
                 ELSE <<[table EXCEPT ![UserId] =
                           CheckoutApply(sub, session, stripe_sub)],
                        purchases>>
            ELSE IF session.mode = "payment"
                    /\ session.payment_intent # NULL
                    /\ ~PurchaseExists(session.payment_intent)
                 THEN <<withCust,
                        (NextPurchaseId :> NewPurchase(session.payment_intent,
                                                       session.amount_total))
                           @@ purchases>>
                 ELSE <<withCust, purchases>>

LifecycleOutcome(etype, stripe_sub, customer_email) ==
    LET bySub == FoundBySubscription(stripe_sub.id)
        byCust == FoundByCustomer(stripe_sub.customer)
        byEmail == /\ stripe_sub.customer # NULL
                   /\ customer_email = UserEmail
                   /\ UserId \in users
        table == IF HasRow THEN subs
                 ELSE (UserId :> [NewRow EXCEPT
                          !.stripe_customer_id = stripe_sub.customer])
    IN IF ~(bySub \/ byCust \/ byEmail) THEN <<subs, purchases>>
       ELSE <<[table EXCEPT ![UserId] =
                 LifecycleApply(table[UserId], etype, stripe_sub)],
              purchases>>

InvoiceSucceededOutcome(sub_id, stripe_sub) ==
    IF sub_id # NULL /\ FoundBySubscription(sub_id)
    THEN <<[subs EXCEPT ![UserId] = InvoiceSucceededApply(Row, stripe_sub)],
           purchases>>
    ELSE <<subs, purchases>>

InvoiceFailedOutcome(sub_id) ==
    IF FoundBySubscription(sub_id)
    THEN <<[subs EXCEPT ![UserId].status = "past_due"], purchases>>
    ELSE <<subs, purchases>>

\* The same for the event a request slot recorded in loc[p].ev.
EventOutcome(ev) ==
    CASE ev.kind = "checkout" -> CheckoutOutcome(ev.session, ev.stripe_sub)
      [] ev.kind = "lifecycle" ->
            LifecycleOutcome(ev.etype, ev.stripe_sub, ev.customer_email)
      [] ev.kind = "invoice.payment_succeeded" ->
            InvoiceSucceededOutcome(ev.sub_id, ev.stripe_sub)
      [] ev.kind = "invoice.payment_failed" -> InvoiceFailedOutcome(ev.sub_id)
      [] OTHER -> <<subs, purchases>>

\* ------------------------------------------------------------------------
\* Inputs: what requests and the provider send
\* ------------------------------------------------------------------------
Units == 0..MaxUnits

PaymentIntents == {"pi_1", "pi_2"}

SubIds == {"sub_1", "sub_2"}

Customers == {OwnCustomer}

\* The current_period_end of the provider's subscription objects, Unix
\* seconds: 2024-02-15T10:00:00Z and 2024-07-01T00:00:00Z.
PeriodEnd == UnixTime(2024, 2, 15, 36000)

LaterPeriodEnd == UnixTime(2024, 7, 1, 0)

\* Subscription snapshots of the provider (without id and customer).
Snapshot(status, cpe, cape, price) ==
    [status |-> status, current_period_end |-> cpe,
     cancel_at_period_end |-> cape, price |-> price]

\* What the provider reports of a live subscription: in the payload of
\* customer.subscription.created/updated and from
\* stripe.Subscription.retrieve.
Snapshots ==
    { Snapshot("active", PeriodEnd, FALSE, PriceEssMonth),
      Snapshot("active", PeriodEnd, TRUE, PricePreYear),
      Snapshot("trialing", PeriodEnd, FALSE, PriceLegacy),
      Snapshot("past_due", PeriodEnd, FALSE, PriceEssMonth),
      Snapshot("incomplete", 0, FALSE, PriceNone) }

\* The payload of customer.subscription.deleted: the ended subscription,
\* and a payload that still carries the fields of a live one.
DeletedSnapshots ==
    { Snapshot("canceled", PeriodEnd, FALSE, PriceEssMonth),
      Snapshot("active", PeriodEnd, TRUE, PricePreYear) }

\* A subscription object of an event: a snapshot of subscription `id` of
\* customer `customer`.
StripeSub(id, customer, snap) ==
    [id |-> id, customer |-> customer, status |-> snap.status,
     current_period_end |-> snap.current_period_end,
     cancel_at_period_end |-> snap.cancel_at_period_end,
     price |-> snap.price]

\* Subscription lifecycle events as <<type, subscription object>>.
LifecycleEvents ==
    { <<etype, StripeSub(id, c, snap)>> :
        etype \in {"customer.subscription.created",
                   "customer.subscription.updated"},
        id \in SubIds, c \in Customers, snap \in Snapshots }
    \cup
    { <<"customer.subscription.deleted", StripeSub(id, c, snap)>> :
        id \in SubIds, c \in Customers, snap \in DeletedSnapshots }

\* Checkout sessions as the views create them (metadata.user_id set, the
\* account's customer) and as the provider may also send them (no metadata,
\* matched by e-mail address, or matching nobody).
SubscriptionSessions ==
    { [mode |-> "subscription", meta |-> m, email |-> e, customer |-> c,
       subscription |-> sid, payment_intent |-> NULL, amount_total |-> 0] :
        m \in {NoMeta,
               [user_id |-> UserId, plan |-> "precision", interval |-> "month"]},
        e \in {NULL, UserEmail}, c \in Customers, sid \in SubIds \cup {NULL} }

PaymentSessions ==
    { [mode |-> "payment", meta |-> m, email |-> NULL, customer |-> c,
       subscription |-> NULL, payment_intent |-> i, amount_total |-> 299] :
        m \in {NoMeta,
               [user_id |-> UserId, plan |-> "pdf_report", interval |-> NULL]},
        c \in Customers, i \in PaymentIntents \cup {NULL} }

\* Sessions of a mode the handler has no branch for: only the customer id
\* is stored.
SetupSessions ==
    { [mode |-> "setup",
       meta |-> [user_id |-> UserId, plan |-> NULL, interval |-> NULL],
       email |-> NULL, customer |-> c,
       subscription |-> NULL, payment_intent |-> "pi_1", amount_total |-> 0] :
        c \in Customers }

Sessions == SubscriptionSessions \cup PaymentSessions \cup SetupSessions

\* ------------------------------------------------------------------------
\* SpecReconciler: what every view and every handler of the webhook
\* reconciler writes, over the whole range of events: one request at a
\* time (request slot 1 alone: a request starts when the one before it has
\* returned) and every call of the provider succeeding in the views.  The
\* requests run concurrently in SpecDelivery, the provider fails in
\* SpecFailure.
\* ------------------------------------------------------------------------
NextReconciler ==
    \/ \E flow \in {"none", "free", "paid"} : RegisterView(1, flow)
    \/ RegisterGetOrCreate(1, "ok")
    \/ \E flow \in {"free", "paid"} : CreateCheckoutSessionView(1, flow, "ok")
    \/ ViewSaveFree(1)
    \/ ViewEnsureCustomer(1, "ok")
    \/ \E ape \in BOOLEAN : CancelSubscriptionView(1, ape)
    \/ CancelSubscriptionReturns(1, TRUE)
    \/ CancelSubscriptionSave(1)
    \/ Idle(1) /\ CurrentSubscriptionView
    \/ Idle(1) /\ StartFreeTrial
    \/ \E session \in Sessions : WebhookCheckout(1, session)
    \/ WebhookCustomer(1)
    \/ \E snap \in Snapshots : WebhookFetch(1, snap)
    \/ \E ev \in LifecycleEvents : WebhookLifecycle(1, ev[1], ev[2], UserEmail)
    \/ WebhookLifecycleByCustomer(1)
    \/ WebhookLifecycleByEmail(1)
    \/ Respond(1)
    \/ \E sid \in SubIds : WebhookInvoiceSucceeded(1, sid)
    \/ \E ok \in BOOLEAN, snap \in Snapshots : WebhookInvoiceFetch(1, ok, snap)
    \/ \E sid \in SubIds : WebhookInvoiceFailed(1, sid)
    \/ WebhookSave(1)
    \/ WebhookSaveStatus(1)
    \/ WebhookCreatePurchase(1)
    \/ WebhookCommitPurchase(1)

SpecReconciler == Init /\ [][NextReconciler]_vars


\* ------------------------------------------------------------------------
\* SpecLedger: the credit service under concurrent requests (every request
\* slot), next to the free trial and to checkout webhooks (delivered on slot
\* 1) that give the account a plan or a one-time purchase. The clock stands
\* still.
\* ------------------------------------------------------------------------
LedgerSnapshots ==
    { Snapshot("active", PeriodEnd, FALSE, PriceEssMonth) }

LedgerSessions ==
    { [mode |-> "subscription",
       meta |-> [user_id |-> UserId, plan |-> "essentials", interval |-> "month"],
       email |-> UserEmail, customer |-> OwnCustomer,
       subscription |-> "sub_1", payment_intent |-> NULL, amount_total |-> 0] }
    \cup
    { [mode |-> "payment",
       meta |-> [user_id |-> UserId, plan |-> "pdf_report", interval |-> NULL],
       email |-> UserEmail, customer |-> OwnCustomer,
       subscription |-> NULL, payment_intent |-> i, amount_total |-> 299] :
        i \in {"pi_1"} }

NextLedger ==
    \/ RegisterView(1, "paid")
    \/ RegisterGetOrCreate(1, "ok")
    \/ \E outcome \in {"ok", "customer_fails"} : ViewEnsureCustomer(1, outcome)
    \/ StartFreeTrial
    \/ \E p \in Procs, units \in Units : ReserveStart(p, units)
    \/ \E p \in Procs : ReserveSubscription(p)
    \/ \E p \in Procs : ReserveEnsure(p)
    \/ \E p \in Procs : CommitStart(p)
    \/ \E p \in Procs : CommitWrite(p)
    \/ \E p \in Procs : Abandon(p)
    \/ \E p \in Procs : Return(p)
    \/ \E session \in LedgerSessions : WebhookCheckout(1, session)
    \/ WebhookCustomer(1)
    \/ \E snap \in LedgerSnapshots : WebhookFetch(1, snap)
    \/ WebhookSave(1)
    \/ WebhookCreatePurchase(1)
    \/ WebhookCommitPurchase(1)
    \/ Respond(1)

SpecLedger == Init /\ [][NextLedger]_vars


\* ------------------------------------------------------------------------
\* SpecDelivery: requests run concurrently, one on every request slot: the
\* webhook events the provider delivers and the account's own requests to
\* the views, each of them a sequence of statements that the statements of
\* the other request can come between.
\* ------------------------------------------------------------------------
DeliverySnapshots ==
    { Snapshot("active", PeriodEnd, FALSE, PriceEssMonth),
      Snapshot("past_due", PeriodEnd, FALSE, PriceEssMonth) }

DeliveryEvents ==
    { <<"customer.subscription.updated", StripeSub("sub_1", OwnCustomer, snap)>> :
        snap \in DeliverySnapshots }
    \cup
    { <<"customer.subscription.created",
        StripeSub("sub_1", OwnCustomer,
                  Snapshot("active", PeriodEnd, FALSE, PriceEssMonth))>> }
    \cup
    { <<"customer.subscription.deleted",
        StripeSub("sub_1", OwnCustomer,
                  Snapshot("canceled", PeriodEnd, FALSE, PriceEssMonth))>> }

DeliverySessions ==
    { [mode |-> "subscription",
       meta |-> [user_id |-> UserId, plan |-> "essentials", interval |-> "month"],
       email |-> UserEmail, customer |-> OwnCustomer,
       subscription |-> "sub_1", payment_intent |-> NULL, amount_total |-> 0] }
    \cup
    { [mode |-> "payment",
       meta |-> [user_id |-> UserId, plan |-> "pdf_report", interval |-> NULL],
       email |-> UserEmail, customer |-> OwnCustomer,
       subscription |-> NULL, payment_intent |-> i, amount_total |-> 299] :
        i \in {"pi_1"} }

NextDelivery ==
    \/ \E p \in Procs, flow \in {"none", "free", "paid"} : RegisterView(p, flow)
    \/ \E p \in Procs : RegisterGetOrCreate(p, "ok")
    \/ \E p \in Procs, flow \in {"free", "paid"} :
          CreateCheckoutSessionView(p, flow, "ok")
    \/ \E p \in Procs : ViewSaveFree(p)
    \/ \E p \in Procs : ViewEnsureCustomer(p, "ok")
    \/ \E p \in Procs, ape \in BOOLEAN : CancelSubscriptionView(p, ape)
    \/ \E p \in Procs : CancelSubscriptionReturns(p, TRUE)
    \/ \E p \in Procs : CancelSubscriptionSave(p)
    \/ \E p \in Procs, session \in DeliverySessions :
          WebhookCheckout(p, session)
    \/ \E p \in Procs : WebhookCustomer(p)
    \/ \E p \in Procs, snap \in DeliverySnapshots : WebhookFetch(p, snap)
    \/ \E p \in Procs, ev \in DeliveryEvents :
          WebhookLifecycle(p, ev[1], ev[2], UserEmail)
    \/ \E p \in Procs : WebhookLifecycleByCustomer(p)
    \/ \E p \in Procs : WebhookLifecycleByEmail(p)
    \/ \E p \in Procs : Respond(p)
    \/ \E p \in Procs : WebhookInvoiceFailed(p, "sub_1")
    \/ \E p \in Procs : WebhookSave(p)
    \/ \E p \in Procs : WebhookSaveStatus(p)
    \/ \E p \in Procs : WebhookCreatePurchase(p)
    \/ \E p \in Procs : WebhookCommitPurchase(p)

SpecDelivery == Init /\ [][NextDelivery]_vars


\* ------------------------------------------------------------------------
\* SpecWindow: the credit service and the accounting window of one account,
\* one request at a time (request slot 1), with time advancing and
\* invoice.payment_succeeded events refreshing the row from the provider.
\* The account starts in any of the states below.
\* ------------------------------------------------------------------------

\* The rows an account can hold at instant TimePoint(c): a paid plan with
\* usage up to its cap, a free trial stamped at an earlier instant with its
\* one credit used or not, or the row of a new account; with no window yet,
\* or with the window ensure_period or stamp_free_trial opened at an
\* instant up to now.
PaidRows(c) ==
    { [NewRow EXCEPT !.plan = plan, !.interval = "month",
                         !.status = "active",
                         !.stripe_customer_id = OwnCustomer,
                         !.stripe_subscription_id = "sub_1",
                         !.current_period_start = billing_window_from(TimePoint(k))[1],
                         !.current_period_end = billing_window_from(TimePoint(k))[2],
                         !.period_usage = u] :
        plan \in {"essentials"}, k \in 1..c, u \in 0..MonthlyCap("essentials") }
    \cup
    { [NewRow EXCEPT !.plan = plan, !.interval = "month",
                         !.status = "active",
                         !.stripe_customer_id = OwnCustomer,
                         !.stripe_subscription_id = "sub_1",
                         !.current_period_start = billing_window_from(TimePoint(k))[1],
                         !.current_period_end = billing_window_from(TimePoint(k))[2],
                         !.period_usage = u] :
        plan \in {"precision"}, k \in 1..c, u \in 0..MonthlyCap("precision") }
    \cup
    { [NewRow EXCEPT !.plan = plan, !.interval = "month",
                         !.status = "active",
                         !.stripe_customer_id = OwnCustomer,
                         !.stripe_subscription_id = "sub_1"] :
        plan \in {"essentials", "precision"} }

TrialRows(c) ==
    { [stamp_free_trial(NewRow, TimePoint(k)) EXCEPT !.period_usage = u] :
        k \in 1..c, u \in 0..TrialOnce }

InitWindow ==
    /\ users = {UserId}
    /\ clock \in 1..MaxTime
    /\ \E row \in PaidRows(clock) \cup TrialRows(clock) \cup {NewRow} :
          subs = (UserId :> row)
    /\ purchases = <<>>
    /\ lock = 0
    /\ pc = [p \in Procs |-> "idle"]
    /\ loc = [p \in Procs |-> NoLoc]
    /\ status_by = "none"
    /\ redelivered = {}
    /\ committed = 0
    /\ provider = <<>>

\* What stripe.Subscription.retrieve returns of the account's subscription
\* at a renewal: the provider's own period end (a month or a year ahead),
\* or none.
WindowSnapshots ==
    { Snapshot("active", cpe, FALSE, PriceEssMonth) :
        cpe \in {0, PeriodEnd, LaterPeriodEnd} }

NextWindow ==
    \/ \E units \in Units : ReserveStart(1, units)
    \/ ReserveSubscription(1)
    \/ ReserveEnsure(1)
    \/ CommitStart(1)
    \/ CommitWrite(1)
    \/ Abandon(1)
    \/ Return(1)
    \/ Tick
    \/ WebhookInvoiceSucceeded(1, "sub_1")
    \/ \E snap \in WindowSnapshots : WebhookInvoiceFetch(1, TRUE, snap)
    \/ WebhookSave(1)

SpecWindow == InitWindow /\ [][NextWindow]_vars

\* ------------------------------------------------------------------------
\* SpecRoll: reserve_credit calls of an essentials account whose window was
\* opened at an earlier instant, with time advancing; a request inside
\* ensure_period keeps running (weak fairness of its next save).
\* ------------------------------------------------------------------------
InitRoll ==
    /\ users = {UserId}
    /\ clock \in 1..MaxTime
    /\ \E row \in PaidRows(clock) :
          /\ row.plan = "essentials"
          /\ subs = (UserId :> row)
    /\ purchases = <<>>
    /\ lock = 0
    /\ pc = [p \in Procs |-> "idle"]
    /\ loc = [p \in Procs |-> NoLoc]
    /\ status_by = "none"
    /\ redelivered = {}
    /\ committed = 0
    /\ provider = <<>>

NextRoll ==
    \/ \E units \in Units : ReserveStart(1, units)
    \/ ReserveSubscription(1)
    \/ ReserveEnsure(1)
    \/ Abandon(1)
    \/ Return(1)
    \/ Tick

SpecRoll == InitRoll /\ [][NextRoll]_vars /\ WF_vars(ReserveEnsure(1))


\* ------------------------------------------------------------------------
\* SpecTrial: an account that stays on the free plan: registration, the
\* free trial, the credit service under concurrent requests, time
\* advancing, and the customer.subscription.deleted events of a customer
\* without a plan.
\* ------------------------------------------------------------------------
TrialEvents ==
    { <<"customer.subscription.deleted",
        StripeSub("sub_1", OwnCustomer,
                  Snapshot("canceled", PeriodEnd, FALSE, PriceEssMonth))>> }

NextTrial ==
    \/ RegisterView(1, "paid")
    \/ RegisterGetOrCreate(1, "ok")
    \/ \E outcome \in {"ok", "customer_fails"} : ViewEnsureCustomer(1, outcome)
    \/ StartFreeTrial
    \/ \E p \in Procs, units \in Units : ReserveStart(p, units)
    \/ \E p \in Procs : ReserveSubscription(p)
    \/ \E p \in Procs : ReserveEnsure(p)
    \/ \E p \in Procs : CommitStart(p)
    \/ \E p \in Procs : CommitWrite(p)
    \/ \E p \in Procs : Abandon(p)
    \/ \E p \in Procs : Return(p)
    \/ Tick
    \/ \E ev \in TrialEvents : WebhookLifecycle(1, ev[1], ev[2], UserEmail)
    \/ WebhookLifecycleByCustomer(1)
    \/ WebhookLifecycleByEmail(1)
    \/ WebhookSave(1)
    \/ Respond(1)

SpecTrial == Init /\ [][NextTrial]_vars


\* ------------------------------------------------------------------------
\* SpecTicket: the credit service of an account that holds one-time
\* purchases, one request at a time, with time advancing.  The
\* ReportPurchase table starts with up to MaxPurchases rows, of the account
\* or of another user, consumed (at the first instant) or not.
\* SpecTicketRace is the same under concurrent requests (every request
\* slot), with up to MaxRacePurchases rows.
\* ------------------------------------------------------------------------
MaxPurchases == 3

MaxRacePurchases == 1

OtherUserId == 2

\* The rows of the ReportPurchase table: the declared columns user,
\* stripe_payment_intent and amount, with the consumed flag and stamp that
\* credit_service.py filters on and saves and that the model class does not
\* declare.  created_at (auto_now_add) is left out: the credit service and
\* the webhook neither read nor write it, and rows are taken in id order.
PurchaseRows ==
    { [user |-> u, stripe_payment_intent |-> "pi_0", amount |-> 299,
       consumed |-> c, consumed_at |-> IF c THEN TimePoint(1) ELSE 0] :
        u \in {UserId, OtherUserId}, c \in BOOLEAN }

\* Row id of the table gets the payment intent "pi_<id>".
PaymentIntentOf(i) ==
    CASE i = 1 -> "pi_1" [] i = 2 -> "pi_2" [] i = 3 -> "pi_3"
      [] OTHER -> "pi_4"

PurchaseTables(max) ==
    UNION { { [i \in 1..n |->
                 [t[i] EXCEPT !.stripe_payment_intent = PaymentIntentOf(i)]] :
              t \in [1..n -> PurchaseRows] } : n \in 0..max }

\* The row of an account that has checked out a one-time purchase and
\* nothing else: the default row with the customer id of the session.
UnsubscribedRow == [NewRow EXCEPT !.stripe_customer_id = OwnCustomer]

\* The Subscription rows of the account: the row without a plan (no
\* credits), or essentials with one credit left in the window opened at
\* the first instant.
TicketRows ==
    { UnsubscribedRow,
      [NewRow EXCEPT !.plan = "essentials", !.interval = "month",
                         !.status = "active",
                         !.stripe_customer_id = OwnCustomer,
                         !.stripe_subscription_id = "sub_1",
                         !.current_period_start = billing_window_from(TimePoint(1))[1],
                         !.current_period_end = billing_window_from(TimePoint(1))[2],
                         !.period_usage = MonthlyCap("essentials") - 1] }

\* With `rowless`, the account may also have no Subscription row yet: it
\* then has no purchase either (the checkout handler inserts the row before
\* the purchase).
InitTicketUpTo(max, rowless) ==
    /\ users = {UserId}
    /\ clock = 2
    /\ purchases \in PurchaseTables(max)
    /\ \/ subs \in { (UserId :> row) : row \in TicketRows }
       \/ /\ rowless
          /\ \A i \in DOMAIN purchases : purchases[i].user # UserId
          /\ subs = <<>>
    /\ lock = 0
    /\ pc = [p \in Procs |-> "idle"]
    /\ loc = [p \in Procs |-> NoLoc]
    /\ status_by = "none"
    /\ redelivered = {}
    /\ committed = 0
    /\ provider = <<>>

InitTicket == InitTicketUpTo(MaxPurchases, TRUE)

NextTicket ==
    \/ \E units \in Units : ReserveStart(1, units)
    \/ ReserveSubscription(1)
    \/ ReserveEnsure(1)
    \/ CommitStart(1)
    \/ CommitWrite(1)
    \/ Abandon(1)
    \/ Return(1)
    \/ Tick

SpecTicket == InitTicket /\ [][NextTicket]_vars

InitTicketRace == InitTicketUpTo(MaxRacePurchases, FALSE)

NextTicketRace ==
    \/ \E p \in Procs, units \in Units : ReserveStart(p, units)
    \/ \E p \in Procs : ReserveSubscription(p)
    \/ \E p \in Procs : ReserveEnsure(p)
    \/ \E p \in Procs : CommitStart(p)
    \/ \E p \in Procs : CommitWrite(p)
    \/ \E p \in Procs : Abandon(p)
    \/ \E p \in Procs : Return(p)
    \/ Tick

SpecTicketRace == InitTicketRace /\ [][NextTicketRace]_vars


\* ------------------------------------------------------------------------
\* SpecPurchase: the credit service next to the checkout webhooks that
\* create the account's one-time purchases, under concurrent requests
\* (every request slot).  The account has its row, with or without the
\* customer id of the sessions; the ReportPurchase table is empty or holds
\* a purchase of another user.  The row has no plan, so every ticket is a
\* one_time ticket.  The clock stands still.
\* ------------------------------------------------------------------------
PurchaseSessions ==
    { [mode |-> "payment",
       meta |-> [user_id |-> UserId, plan |-> "pdf_report", interval |-> NULL],
       email |-> UserEmail, customer |-> OwnCustomer,
       subscription |-> NULL, payment_intent |-> i, amount_total |-> 299] :
        i \in PaymentIntents }

InitPurchase ==
    /\ users = {UserId}
    /\ clock = 2
    /\ purchases \in { t \in PurchaseTables(1) :
                          \A i \in DOMAIN t : /\ t[i].user = OtherUserId
                                              /\ ~t[i].consumed }
    /\ subs \in { (UserId :> row) : row \in {NewRow, UnsubscribedRow} }
    /\ lock = 0
    /\ pc = [p \in Procs |-> "idle"]
    /\ loc = [p \in Procs |-> NoLoc]
    /\ status_by = "none"
    /\ redelivered = {}
    /\ committed = 0
    /\ provider = <<>>

NextPurchase ==
    \/ \E p \in Procs, session \in PurchaseSessions : WebhookCheckout(p, session)
    \/ \E p \in Procs : WebhookCustomer(p)
    \/ \E p \in Procs : WebhookCreatePurchase(p)
    \/ \E p \in Procs : WebhookCommitPurchase(p)
    \/ \E p \in Procs : ReserveStart(p, 1)
    \/ \E p \in Procs : ReserveSubscription(p)
    \/ \E p \in Procs : ReserveEnsure(p)
    \/ \E p \in Procs : CommitStart(p)
    \/ \E p \in Procs : Abandon(p)
    \/ \E p \in Procs : Return(p)

SpecPurchase == InitPurchase /\ [][NextPurchase]_vars


\* ------------------------------------------------------------------------
\* SpecProvider: the provider changes subscription sub_1 of the account and
\* sends a lifecycle event with every change; the events arrive in any
\* order, any number of times, while the provider moves on.  Renewal events
\* make the Reconciler fetch the subscription as it is now.
\* ------------------------------------------------------------------------
ProviderSnapshots ==
    { Snapshot("active", PeriodEnd, FALSE, PriceEssMonth),
      Snapshot("past_due", PeriodEnd, FALSE, PriceEssMonth),
      Snapshot("active", LaterPeriodEnd, TRUE, PricePreYear) }

\* The subscription as the provider holds it now.
ProviderNow == provider[Len(provider)]

\* The checkout session of the account's subscription sub_1.
ProviderSession ==
    [mode |-> "subscription",
     meta |-> [user_id |-> UserId, plan |-> "essentials", interval |-> "month"],
     email |-> UserEmail, customer |-> OwnCustomer,
     subscription |-> "sub_1", payment_intent |-> NULL, amount_total |-> 0]

\* The account has checked out: its row is what the checkout handler made
\* of the subscription's first state.
InitProvider ==
    /\ users = {UserId}
    /\ \E snap \in ProviderSnapshots :
          /\ provider = <<snap>>
          /\ subs = (UserId :> CheckoutApply(NewRow, ProviderSession, snap))
    /\ purchases = <<>>
    /\ clock = 1
    /\ lock = 0
    /\ pc = [p \in Procs |-> "idle"]
    /\ loc = [p \in Procs |-> NoLoc]
    /\ status_by = "checkout.session.completed"
    /\ redelivered = {}
    /\ committed = 0

\* The subscription changes at the provider.
ProviderChanges(snap) ==
    /\ Len(provider) < MaxProviderStates
    /\ ProviderNow.status # "canceled"
    /\ snap # ProviderNow
    /\ provider' = Append(provider, snap)
    /\ UNCHANGED <<users, subs, purchases, clock, lock, pc, loc, status_by, redelivered, committed>>

NextProvider ==
    \/ \E snap \in ProviderSnapshots : ProviderChanges(snap)
    \/ \E ape \in BOOLEAN : CancelSubscriptionView(2, ape)
    \/ CancelSubscriptionReturns(2, TRUE)
    \/ CancelSubscriptionSave(2)
    \/ WebhookLifecycleByCustomer(1)
    \/ \E i \in 1..Len(provider) :
          WebhookLifecycle(1, IF provider[i].status = "canceled"
                              THEN "customer.subscription.deleted"
                              ELSE IF i = 1
                              THEN "customer.subscription.created"
                              ELSE "customer.subscription.updated",
                           StripeSub("sub_1", OwnCustomer, provider[i]),
                           UserEmail)
    \/ WebhookInvoiceSucceeded(1, "sub_1")
    \/ WebhookInvoiceFetch(1, TRUE, ProviderNow)
    \/ WebhookSave(1)
    \/ committed < MaxProviderCommits /\ ReserveStart(2, 1)
    \/ ReserveSubscription(2)
    \/ ReserveEnsure(2)
    \/ CommitStart(2)
    \/ CommitWrite(2)
    \/ Return(2)

SpecProvider == InitProvider /\ [][NextProvider]_vars


\* ------------------------------------------------------------------------
\* SpecFailure: requests and webhook deliveries, one at a time, in which a
\* provider call or a local write fails or the event matches nobody, next
\* to the registration and the checkout events that give the account its
\* row, its subscription and its purchases.
\* ------------------------------------------------------------------------

\* Sessions of the provider with a metadata.user_id that is not a number.
MalformedSessions ==
    { [mode |-> mode, meta |-> [user_id |-> MalformedId, plan |-> NULL,
                                interval |-> NULL],
       email |-> e, customer |-> OwnCustomer,
       subscription |-> NULL, payment_intent |-> NULL, amount_total |-> 0] :
        mode \in {"subscription", "payment"}, e \in {NULL, UserEmail} }

\* Lifecycle events of the account's subscription and of a subscription of
\* somebody else.
FailureEvents ==
    { <<etype, StripeSub(id, c, Snapshot("active", PeriodEnd, FALSE,
                                         PriceEssMonth))>> :
        etype \in {"customer.subscription.created",
                   "customer.subscription.updated",
                   "customer.subscription.deleted"},
        id \in SubIds, c \in {NULL, OwnCustomer, "cus_2"} }

NextFailure ==
    \/ \E flow \in {"none", "paid"} : RegisterView(1, flow)
    \/ \E outcome \in ProviderOutcomes : RegisterGetOrCreate(1, outcome)
    \/ \E session \in Sessions \cup MalformedSessions :
          WebhookCheckout(1, session)
    \/ WebhookCustomer(1)
    \/ WebhookFetch(1, Snapshot("active", PeriodEnd, FALSE, PriceEssMonth))
    \/ WebhookSave(1)
    \/ WebhookCreatePurchase(1)
    \/ WebhookCommitPurchase(1)
    \/ \E failure \in {"provider", "write"} : CheckoutRaises(1, failure)
    \/ \E outcome \in ProviderOutcomes :
          CreateCheckoutSessionView(1, "paid", outcome)
    \/ \E outcome \in ProviderOutcomes : ViewEnsureCustomer(1, outcome)
    \/ \E ape \in BOOLEAN : CancelSubscriptionView(1, ape)
    \/ \E ok \in BOOLEAN : CancelSubscriptionReturns(1, ok)
    \/ CancelSubscriptionSave(1)
    \/ \E sid \in SubIds : WebhookInvoiceSucceeded(1, sid)
    \/ WebhookInvoiceFetch(1, TRUE, Snapshot("active", PeriodEnd, FALSE, PriceEssMonth))
    \/ \E failure \in {"provider", "write"} : InvoiceSucceededRaises(1, failure)
    \/ \E ev \in FailureEvents, email \in {NULL, UserEmail, "other@example.com"} :
          WebhookLifecycle(1, ev[1], ev[2], email)
    \/ WebhookLifecycleByCustomer(1)
    \/ WebhookLifecycleByEmail(1)
    \/ Respond(1)

SpecFailure == Init /\ [][NextFailure]_vars


\* ------------------------------------------------------------------------
\* Properties
\* ------------------------------------------------------------------------

\* The cap the data model states for a row: the monthly cap of its plan,
\* 0 for free, 1 for free while trialing.
StatedCap(row) ==
    IF row.plan = "free"
    THEN IF row.status = "trialing" THEN TrialOnce ELSE 0
    ELSE MonthlyCap(row.plan)

\* Request slot p has finished commit_credit of a subscription ticket of one
\* unit that reserve_credit granted while exactly one credit remained.
CommittedLastCredit(p) ==
    /\ pc[p] = "done"
    /\ loc[p].source = "subscription"
    /\ loc[p].units = 1
    /\ loc[p].remaining = 1

\* C1: two concurrent commit_credit calls, each with a subscription ticket of
\* 1 unit granted while exactly 1 credit remained (the same reading of
\* period_usage), leave period_usage increased by exactly 1.
C1_TwoCommitsOneCredit ==
    \A p \in Procs, q \in Procs :
        ( /\ p # q
          /\ CommittedLastCredit(p)
          /\ CommittedLastCredit(q)
          /\ loc[p].base = loc[q].base )
        => Row.period_usage = loc[p].base + 1

\* C2: in every reachable state period_usage is at most the cap of the
\* row's current plan (6 essentials, 12 precision, 0 free, 1 free while
\* trialing).
C2_UsageWithinCap == HasRow => Row.period_usage <= StatedCap(Row)

\* Request slot p ends a reconciler transaction with its save of the row.
ReconcilerSaves(p) == pc[p] = "wh_save" /\ pc'[p] = "idle"

\* C3: the reconciler's write of a Subscription row leaves period_usage as
\* the row holds it: it never puts back a value read before a commit_credit.
C3_ReconcilerKeepsUsage ==
    [][ \A p \in Procs :
          (ReconcilerSaves(p) /\ HasRow)
          => subs'[UserId].period_usage = subs[UserId].period_usage ]_vars

PurchaseCount(pi) ==
    Cardinality({i \in DOMAIN purchases : purchases[i].stripe_payment_intent = pi})

\* C4: one-time checkout events handled one after the other leave at most
\* one ReportPurchase row per payment intent, and a delivery that finds the
\* row of its payment intent creates no row and changes no row.
C4_RedeliveryIsNoOp ==
    [][ /\ \A pi \in PaymentIntents : PurchaseCount(pi)' <= 1
        /\ redelivered' # redelivered => purchases' = purchases ]_vars

\* C4 witness: an event was handled again and its payment intent has
\* exactly one row.
C4_Witness ==
    \E pi \in PaymentIntents : pi \in redelivered /\ PurchaseCount(pi) = 1

\* C5: under concurrent deliveries of the same one-time checkout event,
\* every reachable state holds at most one ReportPurchase row per payment
\* intent.
C5_UniquePaymentRef == \A pi \in PaymentIntents : PurchaseCount(pi) <= 1

\* C6: status = canceled implies stripe_subscription_id is null and
\* plan = free, in every reachable state.
C6_CanceledIsFree ==
    (HasRow /\ Row.status = "canceled")
    => (Row.stripe_subscription_id = NULL /\ Row.plan = "free")

\* C7: after customer.subscription.deleted cleared the row, the save of a
\* customer.subscription.updated that located the row leaves
\* stripe_subscription_id null.
C7_StaleUpdateKeepsNull ==
    [][ ( /\ ReconcilerSaves(1)
          /\ loc[1].msg = "customer.subscription.updated"
          /\ status_by = "customer.subscription.deleted"
          /\ subs[UserId].stripe_subscription_id = NULL )
        => subs'[UserId].stripe_subscription_id = NULL ]_vars

\* C7 witness: the row as customer.subscription.deleted left it, and a
\* customer.subscription.updated carrying an earlier state located it and is
\* about to save.
C7_Witness ==
    /\ HasRow
    /\ status_by = "customer.subscription.deleted"
    /\ Row.status = "canceled"
    /\ Row.stripe_subscription_id = NULL
    /\ Row.stripe_customer_id = OwnCustomer
    /\ pc[1] = "wh_save"
    /\ loc[1].msg = "customer.subscription.updated"
    /\ loc[1].obj.status = "active"
    /\ loc[1].obj.stripe_subscription_id = NULL

\* A step in which the reconciler writes the row for an event other than
\* checkout.session.completed.
LaterEventWrites ==
    \/ /\ ReconcilerSaves(1)
       /\ loc[1].msg \in {"customer.subscription.created",
                         "customer.subscription.updated",
                         "invoice.payment_succeeded"}
    \/ /\ status_by' = "invoice.payment_failed"
       /\ subs' # subs

\* C8: once customer.subscription.deleted has set the row to canceled and
\* free, created/updated and invoice events leave it canceled and free.
C8_CanceledIsTerminal ==
    [][ ( /\ HasRow
          /\ status_by = "customer.subscription.deleted"
          /\ subs[UserId].status = "canceled"
          /\ subs[UserId].plan = "free"
          /\ LaterEventWrites )
        => ( /\ subs'[UserId].status = "canceled"
             /\ subs'[UserId].plan = "free" ) ]_vars

ReconcilerOps ==
    {"checkout.session.completed", "customer.subscription.created",
     "customer.subscription.updated", "customer.subscription.deleted",
     "invoice.payment_succeeded", "invoice.payment_failed"}

\* C9 as claimed: a row whose status is active, past_due or canceled got
\* that status from the webhook reconciler.
C9_OnlyReconcilerWrites ==
    (HasRow /\ Row.status \in {"active", "past_due", "canceled"})
    => status_by \in ReconcilerOps

\* C9 as amended: past_due is written by the reconciler alone; active also
\* by the free-plan activation of RegisterView and
\* CreateCheckoutSessionView; canceled also by the immediate cancel of
\* CancelSubscriptionView; the saves of the credit service and of
\* ensure_period do not list the status column.
C9_StatusWriters ==
    /\ "status" \notin WindowFields \cup CommitFields
    /\ HasRow =>
         /\ Row.status = "past_due" => status_by \in ReconcilerOps
         /\ Row.status = "active" =>
              status_by \in ReconcilerOps
                            \cup {"RegisterView", "CreateCheckoutSessionView"}
         /\ Row.status = "canceled" =>
              status_by \in ReconcilerOps \cup {"CancelSubscriptionView"}

\* C9 witness: the immediate cancel wrote canceled on a subscribed row.
C9_Witness ==
    /\ HasRow
    /\ Row.status = "canceled"
    /\ status_by = "CancelSubscriptionView"
    /\ Row.stripe_subscription_id # NULL

ClaimedStatuses == {"inactive", "trialing", "active", "past_due", "canceled"}

ClaimedEdges ==
    { <<"inactive", "trialing">>, <<"trialing", "active">>,
      <<"active", "past_due">>, <<"past_due", "active">>,
      <<"active", "canceled">>, <<"past_due", "canceled">> }

\* C10 as claimed: status is one of the five values and every change of it
\* is an edge of the state machine, canceled -> active only through
\* checkout.session.completed.
C10_StateMachine ==
    [][ /\ UserId \in DOMAIN subs' => subs'[UserId].status \in ClaimedStatuses
        /\ (HasRow /\ subs'[UserId].status # subs[UserId].status)
           => \/ <<subs[UserId].status, subs'[UserId].status>> \in ClaimedEdges
              \/ /\ subs[UserId].status = "canceled"
                 /\ subs'[UserId].status = "active"
                 /\ status_by' = "checkout.session.completed" ]_vars

\* The statuses the provider reports of a subscription.
ProviderStatuses ==
    {"incomplete", "incomplete_expired", "trialing", "active", "past_due",
     "canceled", "unpaid", "paused"}

\* C10 as amended: status is inactive or a status of the provider, and a
\* row that left inactive never returns to it; the code restricts no other
\* change of status.
C10_NeverBackToInactive ==
    [][ /\ UserId \in DOMAIN subs' =>
              subs'[UserId].status \in {"inactive"} \cup ProviderStatuses
        /\ (HasRow /\ subs[UserId].status # "inactive")
           => subs'[UserId].status # "inactive" ]_vars

\* C10 witness: a row that went from inactive to a provider status outside
\* the five claimed ones.
C10_Witness == HasRow /\ Row.status = "incomplete"


\* reserve_credit returns to request slot p from its subscription branch:
\* ensure_period has returned and the ticket is granted or refused.
ReserveReturns(p) ==
    /\ pc[p] \in {"r_sub", "r_ensure"}
    /\ pc'[p] \in {"reserved", "denied"}
    /\ loc'[p].msg \in {"using subscription credits",
                       "Not enough subscription credits"}

\* The `now` of the reserve_credit call that takes a step of slot p.
CallNow(p) == IF pc[p] = "r_sub" THEN Now(clock) ELSE loc[p].now

\* C11: on a paid plan with cap c and usage u <= c in the current window
\* and no unconsumed purchase, reserve_credit(user, units) grants a
\* subscription ticket of exactly `units` when units <= c - u, and otherwise
\* refuses without a ticket, its message naming need = units and
\* have = c - u.
C11_ReserveShortfall ==
    [][ ( /\ ReserveReturns(1)
          /\ subs'[UserId].plan \in {"essentials", "precision"}
          /\ subs'[UserId].period_usage <= MonthlyCap(subs'[UserId].plan) )
        => LET avail == MonthlyCap(subs'[UserId].plan) - subs'[UserId].period_usage
           IN IF loc'[1].units <= avail
              THEN /\ pc'[1] = "reserved"
                   /\ loc'[1].source = "subscription"
                   /\ loc'[1].units >= 1
              ELSE /\ pc'[1] = "denied"
                   /\ loc'[1].source = "none"
                   /\ loc'[1].need = loc'[1].units
                   /\ loc'[1].have = avail ]_vars

\* C11 witness: essentials with usage 5, reserve of 2 units refused with
\* need 2, have 1.
C11_Witness ==
    /\ pc[1] = "denied"
    /\ Row.plan = "essentials"
    /\ Row.period_usage = 5
    /\ loc[1].need = 2
    /\ loc[1].have = 1

\* C12 as claimed: on a fresh free trial, once reserve_credit(user, 1) has
\* granted a ticket, a second reserve_credit(user, 1) in the same window is
\* refused: no two granted 1-unit tickets of the unused trial credit exist.
C12_SecondReserveFails ==
    \A p \in Procs, q \in Procs :
        ~ ( /\ p # q
            /\ pc[p] = "reserved" /\ pc[q] = "reserved"
            /\ loc[p].source = "subscription" /\ loc[q].source = "subscription"
            /\ loc[p].units = 1 /\ loc[q].units = 1
            /\ HasRow /\ Row.plan = "free" /\ Row.status = "trialing"
            /\ Row.period_usage = 0 )

\* C12 as amended: on the free plan reserve_credit consumes nothing; it
\* grants 1 unit as long as the trial runs and the row's period_usage is 0,
\* whatever tickets it granted before, and refuses once a commit has made
\* period_usage 1.
C12_TrialCreditUntilCommitted ==
    [][ \A p \in Procs :
          /\ ( /\ ReserveReturns(p)
               /\ UserId \in DOMAIN subs /\ subs[UserId].plan = "free" )
             => /\ loc'[p].base >= 1 => pc'[p] = "denied"
                /\ pc'[p] = "reserved" => (loc'[p].units = 1 /\ loc'[p].base = 0)
          /\ ( /\ ReserveReturns(p)
               /\ pc[p] = "r_sub"
               /\ UserId \in DOMAIN subs
               /\ subs[UserId].plan = "free"
               /\ subs[UserId].status = "trialing"
               /\ subs[UserId].trial_end >= Now(clock)
               /\ subs[UserId].period_usage = 0
               /\ loc'[p].units = 1 )
             => pc'[p] = "reserved" ]_vars

\* C12 witness: the trial credit was committed and a reserve of 1 unit was
\* then refused.
C12_Witness ==
    \E p \in Procs :
        /\ pc[p] = "denied"
        /\ loc[p].need = 1 /\ loc[p].have = 0 /\ loc[p].base = 1
        /\ HasRow /\ Row.plan = "free" /\ Row.status = "trialing"
        /\ Row.period_usage = 1
        /\ committed = 1

\* C13: an account that stays on the free plan commits at most one unit
\* through subscription tickets, in total.
C13_FreeLifetimeOne ==
    (HasRow /\ Row.plan = "free") => committed <= TrialOnce

\* C14: when ensure_period returns at `now`,
\* current_period_start <= now <= current_period_end.
C14_NowInsideWindow ==
    [][ ReserveReturns(1)
        => /\ subs'[UserId].current_period_start <= CallNow(1)
           /\ CallNow(1) <= subs'[UserId].current_period_end ]_vars

\* A turn of the roll-forward loop of ensure_period in request slot 1.
RollTurn ==
    /\ pc[1] = "r_ensure"
    /\ ~NoWindow(loc[1].obj)
    /\ subs' # subs

\* C15: past current_period_end, ensure_period advances one window per
\* turn (new start = previous end + 1 s; new end = new start + 1 month
\* - 1 s, later than the previous end; usage 0) and the loop ends.
C15_RollsWindowByWindow ==
    /\ [][ RollTurn
           => /\ subs'[UserId].current_period_start
                   = subs[UserId].current_period_end + OneSecond
              /\ subs'[UserId].current_period_end
                   = AddOneMonth(subs'[UserId].current_period_start) - OneSecond
              /\ subs'[UserId].current_period_end
                   > subs[UserId].current_period_end
              /\ subs'[UserId].period_usage = 0 ]_vars
    /\ (pc[1] = "r_ensure") ~> (pc[1] \in {"reserved", "denied"})

\* C15 witness: called at 2024-04-20 on the window that ended
\* 2024-02-15T09:59:59Z, the loop has saved the window starting
\* 2024-02-15T10:00:00Z and has more turns to run.
C15_Witness ==
    /\ pc[1] = "r_ensure"
    /\ loc[1].now = TimePoint(5)
    /\ Row.current_period_start = TimePoint(4)
    /\ Row.current_period_end = AddOneMonth(TimePoint(4)) - OneSecond
    /\ Row.period_usage = 0
    /\ NeedsRoll(loc[1].obj, loc[1].now)

\* `now` lies within the window of the row.
InWindow(row, now) ==
    /\ row.current_period_start # 0
    /\ row.current_period_end # 0
    /\ row.current_period_start <= now
    /\ now <= row.current_period_end

\* C16: with `now` inside the existing window ensure_period changes nothing
\* of the row, and a second call at the same instant changes nothing of
\* what the first one left.
C16_EnsureIdempotent ==
    [][ /\ ( /\ pc[1] = "r_sub"
             /\ pc'[1] \in {"reserved", "denied", "r_ensure"}
             /\ InWindow(subs[UserId], Now(clock)) )
           => (subs' = subs /\ pc'[1] # "r_ensure")
        /\ ReserveReturns(1)
           => ensure_period(subs'[UserId], CallNow(1)) = subs'[UserId] ]_vars

\* C16 witness: reserve_credit ran on a row with usage inside its window
\* and the usage is still there.
C16_Witness ==
    /\ pc[1] = "reserved"
    /\ loc[1].source = "subscription"
    /\ Row.period_usage = 3
    /\ loc[1].base = 3
    /\ InWindow(Row, Now(clock))

\* C17: a row that has an accounting window has
\* current_period_end = current_period_start + 1 calendar month - 1 s.
C17_WindowIsOneMonth ==
    (HasRow /\ ~NoWindow(Row))
    => Row.current_period_end
          = AddOneMonth(Row.current_period_start) - OneSecond

\* C18: the save of a Reconciler event changes neither current_period_start
\* nor period_usage, and ensure_period(now) after the event gives the
\* current_period_start and period_usage it gives without the event.
C18_WindowIndependentOfEvents ==
    [][ ReconcilerSaves(1)
        => LET before == ensure_period(subs[UserId], Now(clock))
               after == ensure_period(subs'[UserId], Now(clock))
           IN /\ subs'[UserId].current_period_start
                   = subs[UserId].current_period_start
              /\ subs'[UserId].period_usage = subs[UserId].period_usage
              /\ after.current_period_start = before.current_period_start
              /\ after.period_usage = before.period_usage ]_vars


\* C19: the save of a customer.subscription.deleted event leaves the row
\* with plan = free, interval = null, stripe_subscription_id = null and
\* status = canceled, whatever the payload carries.
C19_DeletedAlwaysWins ==
    [][ (ReconcilerSaves(1) /\ loc[1].msg = "customer.subscription.deleted")
        => /\ subs'[UserId].plan = "free"
           /\ subs'[UserId].interval = NULL
           /\ subs'[UserId].stripe_subscription_id = NULL
           /\ subs'[UserId].status = "canceled" ]_vars

\* C19 witness: a deleted event whose payload said status = active,
\* cancel_at_period_end = true and a precision price was applied to the row
\* of the account's customer.
C19_Witness ==
    /\ HasRow
    /\ status_by = "customer.subscription.deleted"
    /\ Row.stripe_customer_id = OwnCustomer
    /\ Row.cancel_at_period_end = TRUE
    /\ Row.plan = "free"
    /\ Row.status = "canceled"

\* C20: when stripe_webhook has handled an event, handling the same event
\* again (the provider's answers unchanged) leaves the Subscription and
\* ReportPurchase tables as the first handling left them.
C20_HandlingTwiceIsOnce ==
    [][ (pc[1] \in {"wh_customer", "wh_save", "wh_commit", "wh_past_due"}
         /\ pc'[1] = "idle")
        => \A ev \in {loc[1].ev} :
              EventOutcome(ev)' = <<subs', purchases'>> ]_vars

\* C20 witness: a customer.subscription.updated event is being handled on
\* the row the same kind of event wrote last, and the object it is about to
\* save equals the row.
C20_Witness ==
    /\ HasRow
    /\ pc[1] = "wh_save"
    /\ loc[1].msg = "customer.subscription.updated"
    /\ status_by = "customer.subscription.updated"
    /\ loc[1].obj = Row


\* A step of slot p in which reserve_credit returns a refusal.
ReserveDenies(p) ==
    pc[p] \in {"idle", "r_sub", "r_ensure"} /\ pc'[p] = "denied"

\* A step of slot p in which reserve_credit returns a ticket.
ReserveGrants(p) ==
    pc[p] \in {"idle", "r_sub", "r_ensure"} /\ pc'[p] = "reserved"

\* C26 as claimed: the step in which reserve_credit refuses changes no
\* Subscription row and no ReportPurchase row.
C26_DeniedMutatesNothing ==
    [][ \A p \in Procs :
          ReserveDenies(p) => (subs' = subs /\ purchases' = purchases) ]_vars

\* A step of reserve_credit in slot p that does not grant a ticket.
ReserveStep(p) ==
    /\ pc[p] \in {"idle", "r_sub", "r_ensure"}
    /\ pc'[p] \in {"r_sub", "r_ensure", "denied"}
    /\ (pc'[p] # pc[p] \/ loc'[p] # loc[p])

\* C26 as amended: a refused reserve_credit changes no ReportPurchase row
\* and no column of the Subscription row but the three window columns.
\* The refusal of units <= 0 and the query of the purchases write nothing.
\* get_or_create inserts the default row of a user who has none and
\* nothing else.  ensure_period writes nothing when the row has a window
\* and `now` is not past its end; otherwise every one of its saves writes
\* the window columns of one turn (the window starting at `now` for a row
\* without one, else the window that follows the old end) with
\* period_usage 0, and the refusal comes with `now` not past the end of the
\* window.
C26_DenialConsumesNothing ==
    [][ \A p \in Procs :
          /\ ReserveStep(p)
             => /\ purchases' = purchases
                /\ HasRow => \A f \in SavedFields \ WindowFields :
                                subs'[UserId][f] = subs[UserId][f]
                /\ ~HasRow => /\ pc[p] = "r_sub" <=> subs' # subs
                              /\ subs' \in {subs, (UserId :> NewRow)}
                /\ pc[p] = "idle" => subs' = subs
                /\ ( /\ pc[p] = "r_sub" /\ HasRow
                     /\ ~NoWindow(Row) /\ Now(clock) <= Row.current_period_end )
                   => (subs' = subs /\ pc'[p] = "denied")
                /\ pc[p] = "r_ensure"
                   => LET turn == EnsureOnce(loc[p].obj, loc[p].now)
                      IN /\ \A f \in WindowFields :
                               subs'[UserId][f] = turn[f]
                         /\ subs'[UserId].period_usage = 0
          /\ (ReserveDenies(p) /\ pc[p] # "idle")
             => /\ ~NoWindow(subs'[UserId])
                /\ CallNow(p) <= subs'[UserId].current_period_end ]_vars

\* C26 witness: reserve_credit refused the request (need 1, have 0) of a
\* user without a Subscription row: get_or_create inserted the default
\* row (it holds no customer id) and ensure_period opened its first
\* window at the instant of the call.
C26_Witness ==
    \E p \in Procs :
        /\ pc[p] = "denied"
        /\ loc[p].need = 1 /\ loc[p].have = 0
        /\ Row = [NewRow EXCEPT
                    !.current_period_start = Now(clock),
                    !.current_period_end = billing_window_from(Now(clock))[2]]

\* C27: a ticket that is not committed leaves no trace: the step that
\* grants it consumes no purchase and does not raise period_usage, dropping
\* it changes no row, and afterwards the same purchase (if still
\* unconsumed) is again the one reserve_credit takes, or the same
\* subscription credits (if no commit used them and the plan still grants
\* them) are again enough.
C27_TicketLeavesNoTrace ==
    [][ \A p \in Procs :
          /\ ReserveGrants(p)
             => /\ purchases' = purchases
                /\ HasRow => subs'[UserId].period_usage <= subs[UserId].period_usage
          /\ (pc[p] = "reserved" /\ pc'[p] = "idle")
             => /\ purchases' = purchases /\ subs' = subs
                /\ ( /\ loc[p].source = "one_time"
                     /\ ~purchases[loc[p].purchase_id].consumed )
                   => FirstUnconsumed' = loc[p].purchase_id
                /\ ( /\ loc[p].source = "subscription"
                     /\ Unconsumed = {}
                     /\ Row.period_usage <= loc[p].base
                     /\ Row.plan # "free" )
                   => RemainingCredits(ensure_period(subs'[UserId], Now(clock')),
                                       Now(clock')) >= loc[p].units ]_vars

\* C27 witness: two requests hold a one-time ticket for the same purchase,
\* which is still unconsumed: the first ticket left nothing behind.
C27_Witness ==
    /\ pc[1] = "reserved" /\ pc[2] = "reserved"
    /\ loc[1].source = "one_time" /\ loc[2].source = "one_time"
    /\ loc[1].purchase_id = loc[2].purchase_id
    /\ ~purchases[loc[1].purchase_id].consumed

\* C28: a consumed ReportPurchase row never changes again: consumed stays
\* true and consumed_at keeps its value, also through commit_credit of a
\* one_time ticket for it.
C28_ConsumedIsFinal ==
    [][ \A i \in DOMAIN purchases :
          purchases[i].consumed
          => (i \in DOMAIN purchases' /\ purchases'[i] = purchases[i]) ]_vars

\* C28 witness: two one_time tickets for the same purchase were both
\* committed, the second after the instant the purchase was consumed at.
C28_Witness ==
    /\ pc[1] = "done" /\ pc[2] = "done"
    /\ loc[1].source = "one_time" /\ loc[2].source = "one_time"
    /\ loc[1].purchase_id = loc[2].purchase_id
    /\ purchases[loc[1].purchase_id].consumed
    /\ purchases[loc[1].purchase_id].consumed_at = TimePoint(2)
    /\ clock = 3

ConsumedCount ==
    Cardinality({i \in DOMAIN purchases : purchases[i].consumed})

\* C29: with an unconsumed purchase of the user, reserve_credit with
\* units >= 1 returns a one_time ticket whatever the Subscription row is,
\* writing nothing; commit_credit of that ticket consumes exactly one
\* purchase, the ticket's, and leaves the Subscription table as it is.
C29_PurchaseCoversAnyUnits ==
    [][ /\ ( /\ pc[1] = "idle"
             /\ pc'[1] \in {"reserved", "denied", "r_sub"}
             /\ Unconsumed # {}
             /\ loc'[1].msg # "Invalid match count." )
           => /\ pc'[1] = "reserved"
              /\ loc'[1].source = "one_time"
              /\ loc'[1].purchase_id \in Unconsumed
              /\ subs' = subs /\ purchases' = purchases
        /\ ( /\ pc[1] = "reserved" /\ pc'[1] = "done"
             /\ loc[1].source = "one_time" )
           => /\ ConsumedCount' = ConsumedCount + 1
              /\ purchases'[loc[1].purchase_id].consumed
              /\ \A i \in DOMAIN purchases :
                    i # loc[1].purchase_id => purchases'[i] = purchases[i]
              /\ subs' = subs ]_vars

\* C29 witness: an account without a plan, whose row grants no
\* subscription credit, committed a one_time ticket: the purchase is
\* consumed at that instant, the row is the new row still.
C29_Witness ==
    /\ pc[1] = "done"
    /\ loc[1].source = "one_time"
    /\ purchases[loc[1].purchase_id].consumed
    /\ purchases[loc[1].purchase_id].consumed_at = TimePoint(3)
    /\ HasRow
    /\ Row = UnsubscribedRow

\* C30: the purchase of a one_time ticket is, when reserve_credit returns
\* it, a purchase of the user, unconsumed, and older purchases are consumed
\* or another user's.
C30_OldestOwnUnconsumed ==
    [][ \A p \in Procs :
          (ReserveGrants(p) /\ loc'[p].source = "one_time")
          => LET id == loc'[p].purchase_id
             IN /\ id \in DOMAIN purchases
                /\ purchases[id].user = UserId
                /\ ~purchases[id].consumed
                /\ \A j \in DOMAIN purchases :
                      j < id => (purchases[j].user # UserId
                                 \/ purchases[j].consumed) ]_vars

\* C30 witness: the table holds an unconsumed purchase of another user and
\* then two unconsumed purchases of the account; the ticket names the first
\* of the two.
C30_Witness ==
    \E p \in Procs :
        /\ pc[p] = "reserved"
        /\ loc[p].source = "one_time"
        /\ loc[p].purchase_id = 2
        /\ DOMAIN purchases = 1..3
        /\ purchases[1].user = OtherUserId /\ ~purchases[1].consumed
        /\ purchases[3].user = UserId /\ ~purchases[3].consumed


\* C21: the object the Reconciler builds when it handles
\* customer.subscription.created or customer.subscription.updated carries
\* the status, the period end and the plan the provider holds at that
\* moment.
C21_WritesProviderTruth ==
    [][ ( /\ pc[1] \in {"idle", "wh_by_customer"} /\ pc'[1] = "wh_save"
          /\ loc'[1].msg \in {"customer.subscription.created",
                              "customer.subscription.updated"} )
        => /\ loc'[1].obj.status = ProviderNow.status
           /\ loc'[1].obj.current_period_end = PeriodEndOf(ProviderNow)
           /\ loc'[1].obj.plan =
                 plan_interval_from_subscription(ProviderNow.price, NoMeta)[1]
      ]_vars

\* C22: when the provider fetch or the local write fails in the handling
\* of invoice.payment_succeeded or checkout.session.completed for a row it
\* matches, the response is not a success.
C22_NoSuccessBeforeWrite ==
    [][ ( /\ pc[1] # "responded" /\ pc'[1] = "responded"
          /\ loc'[1].msg \in {"invoice.payment_succeeded",
                              "checkout.session.completed"}
          /\ loc'[1].failure \in {"provider", "write"} )
        => ~(loc'[1].response \in 200..299) ]_vars

\* C23: an event that matches no user and no row is answered with a
\* success status and changes no Subscription and no ReportPurchase row.
C23_UnmatchedIsAcknowledged ==
    [][ ( /\ pc[1] # "responded" /\ pc'[1] = "responded"
          /\ loc'[1].failure = "unmatched" )
        => /\ loc'[1].response \in 200..299
           /\ subs' = subs
           /\ purchases' = purchases ]_vars

\* C24: when the handling of checkout.session.completed fails inside its
\* transaction, the Subscription table and the ReportPurchase table are as
\* they were before the event: neither the row get_or_create inserted nor
\* the stripe_customer_id it updated persists.
C24_CheckoutAllOrNothing ==
    [][ (pc[1] \in {"wh_fetch", "wh_save", "wh_create"}
         /\ pc'[1] = "responded")
        => (subs' = subs /\ purchases' = purchases) ]_vars

\* C24 witness: the provider fetch raised after the transaction had
\* inserted the row of the user with the customer id of the session; the
\* user has no row.
C24_Witness ==
    /\ pc[1] = "responded"
    /\ loc[1].msg = "checkout.session.completed"
    /\ loc[1].failure = "provider"
    /\ loc[1].response = 500
    /\ UserId \in DOMAIN loc[1].tx
    /\ loc[1].tx[UserId].stripe_customer_id = OwnCustomer
    /\ ~HasRow

\* C25: when a provider call fails in CreateCheckoutSessionView or
\* CancelSubscriptionView the response is an error and the Subscription
\* table is as it was before the request.
C25_ProviderErrorChangesNothing ==
    [][ ( /\ pc[1] # "responded" /\ pc'[1] = "responded"
          /\ loc'[1].msg \in {"CreateCheckoutSessionView",
                              "CancelSubscriptionView"}
          /\ loc'[1].failure = "provider" )
        => /\ loc'[1].response >= 400
           /\ ~loc'[1].changed ]_vars

\* The request slots whose commit_credit of a one_time ticket has returned.
DoneOneTime == {p \in Procs : pc[p] = "done" /\ loc[p].source = "one_time"}

\* C31: each ReportPurchase pays for at most one report: the one_time
\* tickets whose commit_credit has completed are never more than the
\* purchases they consumed, so two requests that reserved the same
\* purchase are not both granted.
C31_OnePurchaseOneReport ==
    Cardinality(DoneOneTime)
        <= Cardinality({i \in DOMAIN purchases :
                           /\ purchases[i].consumed
                           /\ \E p \in DoneOneTime : loc[p].purchase_id = i})

\* ------------------------------------------------------------------------
\* SpecInvoice: invoice.payment_failed events (of the account's
\* subscription, of another subscription, and of an invoice that belongs
\* to no subscription) delivered to an account that registers, checks out
\* and uses credits, one request at a time.
\* ------------------------------------------------------------------------

\* invoice.get("subscription"): a subscription id, or None for an invoice
\* that is not a subscription's.
InvoiceSubIds == SubIds \cup {NULL}

NextInvoice ==
    \/ \E flow \in {"none", "free", "paid"} : RegisterView(1, flow)
    \/ RegisterGetOrCreate(1, "ok")
    \/ ViewSaveFree(1)
    \/ ViewEnsureCustomer(1, "ok")
    \/ \E session \in LedgerSessions : WebhookCheckout(1, session)
    \/ WebhookCustomer(1)
    \/ \E snap \in LedgerSnapshots : WebhookFetch(1, snap)
    \/ WebhookSave(1)
    \/ WebhookCreatePurchase(1)
    \/ WebhookCommitPurchase(1)
    \/ Respond(1)
    \/ \E units \in Units : ReserveStart(1, units)
    \/ ReserveSubscription(1)
    \/ ReserveEnsure(1)
    \/ CommitStart(1)
    \/ CommitWrite(1)
    \/ Return(1)
    \/ \E sid \in InvoiceSubIds : WebhookInvoiceFailed(1, sid)
    \/ WebhookSaveStatus(1)

SpecInvoice == Init /\ [][NextInvoice]_vars

\* The row is linked to the provider subscription `sub_id`.
LinkedTo(sub_id) ==
    HasRow /\ sub_id # NULL /\ Row.stripe_subscription_id = sub_id

\* C32: handling invoice.payment_failed for a provider subscription the
\* row is linked to sets the row's status to past_due and changes nothing
\* else; for any other invoice no Subscription and no ReportPurchase row
\* changes.
C32_InvoiceFailedOnlyStatus ==
    [][ /\ (\E sid \in InvoiceSubIds : WebhookInvoiceFailed(1, sid))
           => (subs' = subs /\ purchases' = purchases)
        /\ WebhookSaveStatus(1)
           => /\ purchases' = purchases
              /\ IF LinkedTo(loc[1].ev.sub_id)
                 THEN subs' = [subs EXCEPT ![UserId].status = "past_due"]
                 ELSE subs' = subs ]_vars

\* ------------------------------------------------------------------------
\* SpecGate: webhook requests as they arrive at stripe_webhook, signed by
\* the provider, signed by somebody else, signed for another payload or
\* not signed, with and without a configured secret; one request at a
\* time, every provider fetch succeeding.
\* ------------------------------------------------------------------------

\* STRIPE_WEBHOOK_SECRET: the configured secret, NULL when there is none.
EndpointSecrets == {NULL, "whsec_1"}

\* The keys a request may have been signed with.
SigningKeys == {"whsec_1", "whsec_x"}

\* The Stripe-Signature header: the HMAC of the payload under a key, as
\* the pair it is made of.  NoSignature is a request without the header.
Signature(key, body) == [key |-> key, body |-> body]
NoSignature == [key |-> NULL, body |-> [kind |-> "none"]]

\* Mutant: the signature is checked against the payload only.
verify_header_AnyKey(payload, sig_header, secret) ==
    sig_header.key # NULL /\ sig_header.body = payload

\* stripe.WebhookSignature.verify_header: the header is the HMAC of this
\* payload under this secret.
verify_header(payload, sig_header, secret) ==
    sig_header.key # NULL /\ sig_header = Signature(secret, payload)

\* A payload that is not JSON.
Garbage == [kind |-> "garbage"]

\* stripe.Webhook.construct_event(payload, sig_header, endpoint_secret):
\* "ok", or the exception it raises.
construct_event(payload, sig_header, secret) ==
    IF ~verify_header(payload, sig_header, secret)
    THEN "SignatureVerificationError"
    ELSE IF payload = Garbage THEN "ValueError" ELSE "ok"

\* The payloads of the requests.
GatePayloads ==
    { [kind |-> "checkout", session |-> s, stripe_sub |-> NoFetch] :
        s \in LedgerSessions }
    \cup
    { [kind |-> "lifecycle", etype |-> "customer.subscription.deleted",
       stripe_sub |-> StripeSub("sub_1", OwnCustomer,
                                Snapshot("canceled", PeriodEnd, FALSE,
                                         PriceEssMonth)),
       customer_email |-> UserEmail] }
    \cup {Garbage}

\* stripe_webhook(request) up to the branch of the event type: the refusal
\* of a request without a configured secret or that construct_event does
\* not accept (400), or the first statements of the handler of the event.
stripe_webhook(p, endpoint_secret, sig_header, payload) ==
    /\ Idle(p)
    /\ IF \/ endpoint_secret = NULL
          \/ construct_event(payload, sig_header, endpoint_secret) # "ok"
       THEN /\ pc' = [pc EXCEPT ![p] = "responded"]
            /\ loc' = [loc EXCEPT ![p] =
                  [NoLoc EXCEPT !.msg = "stripe_webhook",
                                !.ev = payload,
                                !.secret = endpoint_secret,
                                !.sig = sig_header,
                                !.failure = "rejected",
                                !.response = 400]]
            /\ UNCHANGED <<users, subs, purchases, clock, lock, status_by, redelivered, committed, provider>>
       ELSE IF payload.kind = "checkout"
       THEN WebhookCheckout(p, payload.session)
       ELSE WebhookLifecycle(p, payload.etype, payload.stripe_sub,
                             payload.customer_email)

NextGate ==
    \/ \E flow \in {"none", "paid"} : RegisterView(1, flow)
    \/ RegisterGetOrCreate(1, "ok")
    \/ ViewEnsureCustomer(1, "ok")
    \/ \E secret \in EndpointSecrets, payload \in GatePayloads,
          sig \in {Signature(k, b) : k \in SigningKeys, b \in GatePayloads}
                  \cup {NoSignature} :
          stripe_webhook(1, secret, sig, payload)
    \/ WebhookCustomer(1)
    \/ WebhookFetch(1, Snapshot("active", PeriodEnd, FALSE, PriceEssMonth))
    \/ WebhookSave(1)
    \/ WebhookCreatePurchase(1)
    \/ WebhookCommitPurchase(1)
    \/ WebhookLifecycleByCustomer(1)
    \/ WebhookLifecycleByEmail(1)
    \/ Respond(1)

SpecGate == Init /\ [][NextGate]_vars

\* C33: a webhook request whose signature is not the one the configured
\* secret gives for its payload, or that arrives when no secret is
\* configured, is answered with a client-error status and changes no
\* Subscription and no ReportPurchase row, whatever its payload.
C33_UnverifiedIsRejected ==
    [][ \A secret \in EndpointSecrets, payload \in GatePayloads,
           sig \in {Signature(k, b) : k \in SigningKeys, b \in GatePayloads}
                   \cup {NoSignature} :
          ( /\ stripe_webhook(1, secret, sig, payload)
            /\ \/ secret = NULL
               \/ sig # Signature(secret, payload) )
          => /\ pc'[1] = "responded"
             /\ loc'[1].response \in 400..499
             /\ subs' = subs
             /\ purchases' = purchases ]_vars

\* C33 witness: a checkout event that would have given the registered user
\* a row, signed with a key that is not the configured secret, was
\* answered with 400 and the user has no row.
C33_Witness ==
    /\ pc[1] = "responded"
    /\ loc[1].msg = "stripe_webhook"
    /\ loc[1].secret = "whsec_1"
    /\ loc[1].sig = Signature("whsec_x", loc[1].ev)
    /\ loc[1].ev.kind = "checkout"
    /\ loc[1].response = 400
    /\ UserId \in users
    /\ ~HasRow
    /\ EventOutcome(loc[1].ev) # <<subs, purchases>>

\* ------------------------------------------------------------------------
\* SpecDecode: _plan_interval_from_subscription applied to one provider
\* price and one session metadata, drawn in the initial state.
\* ------------------------------------------------------------------------

\* Lookup keys: none, well-formed ones, a key without "_", and keys with an
\* empty part.
DecodeKeys ==
    {NULL, "essentials_month", "precision_year", "essentials", "essentials_",
     "_year"}

\* unit_amount values: the four of the table and one it does not list.
DecodeAmounts == {399, 3840, 799, 7670, 500}

DecodePrices ==
    { [has_price |-> TRUE, lookup_key |-> k, unit_amount |-> u, interval |-> i] :
        k \in DecodeKeys, u \in DecodeAmounts, i \in {NULL, "month", "year"} }
    \cup {PriceNone}

DecodeMetas ==
    { [user_id |-> u, plan |-> pl, interval |-> i] :
        u \in {0, UserId}, pl \in {NULL, "precision"}, i \in {NULL, "month"} }

InitDecode ==
    /\ users = {}
    /\ subs = <<>>
    /\ purchases = <<>>
    /\ clock = 1
    /\ lock = 0
    /\ pc = [p \in Procs |-> "idle"]
    /\ \E price \in DecodePrices, meta \in DecodeMetas :
          loc = [p \in Procs |->
                   IF p = 1
                   THEN [NoLoc EXCEPT !.ev = [kind |-> "decode",
                                              price |-> price, meta |-> meta]]
                   ELSE NoLoc]
    /\ status_by = "none"
    /\ redelivered = {}
    /\ committed = 0
    /\ provider = <<>>

\* plan, interval = _plan_interval_from_subscription(stripe_sub, meta):
\* the result is kept in the object's plan and interval.
DecodePrice(p) ==
    /\ Idle(p)
    /\ loc[p].ev.kind = "decode"
    /\ LET r == plan_interval_from_subscription(loc[p].ev.price, loc[p].ev.meta)
       IN loc' = [loc EXCEPT ![p].obj.plan = r[1], ![p].obj.interval = r[2]]
    /\ pc' = [pc EXCEPT ![p] = "decoded"]
    /\ UNCHANGED <<users, subs, purchases, clock, lock, status_by, redelivered, committed, provider>>

NextDecode == DecodePrice(1)

SpecDecode == InitDecode /\ [][NextDecode]_vars

\* C34: the decoded plan is the lookup key's when the key supplies one,
\* otherwise the session metadata's when it supplies one, otherwise the
\* price-amount table's (399 or 3840: essentials, 799 or 7670: precision);
\* the decoded interval likewise, with the price's recurring interval last.
C34_DecodePriority ==
    pc[1] = "decoded" =>
        LET price == loc[1].ev.price
            meta == loc[1].ev.meta
            key == SplitLookupKey(price.lookup_key)
            plan == loc[1].obj.plan
            interval == loc[1].obj.interval
        IN /\ ~Falsy(key[1]) => plan = key[1]
           /\ ~Falsy(key[2]) => interval = key[2]
           /\ (Falsy(key[1]) /\ ~Falsy(meta.plan)) => plan = meta.plan
           /\ (Falsy(key[2]) /\ ~Falsy(meta.interval)) => interval = meta.interval
           /\ (Falsy(key[1]) /\ Falsy(meta.plan) /\ price.has_price)
              => /\ price.unit_amount \in {399, 3840} => plan = "essentials"
                 /\ price.unit_amount \in {799, 7670} => plan = "precision"
           /\ (Falsy(key[2]) /\ Falsy(meta.interval) /\ price.has_price
                 /\ ~Falsy(price.interval))
              => interval = price.interval

\* C34 witness: a price with a well-formed lookup key, a listed amount of
\* another plan and another recurring interval, decoded next to metadata
\* that names a third plan: the lookup key won.
C34_Witness ==
    /\ pc[1] = "decoded"
    /\ loc[1].ev.price.lookup_key = "essentials_month"
    /\ loc[1].ev.price.unit_amount = 7670
    /\ loc[1].ev.price.interval = "year"
    /\ loc[1].ev.meta.plan = "precision"
    /\ loc[1].obj.plan = "essentials"
    /\ loc[1].obj.interval = "month"

\* C35: commit_credit of a subscription ticket with n units, with no other
\* request running, raises the row's period_usage by n and changes no
\* other Subscription field and no ReportPurchase row: its locked read
\* writes nothing and its save adds n to the usage alone.
C35_CommitAddsUnits ==
    [][ /\ ( /\ pc[1] = "reserved" /\ pc'[1] = "c_write" )
           => (subs' = subs /\ purchases' = purchases)
        /\ ( /\ pc[1] = "c_write" /\ pc'[1] = "done" )
           => /\ loc[1].source = "subscription"
              /\ subs' = [subs EXCEPT ![UserId].period_usage = @ + loc[1].units]
              /\ purchases' = purchases ]_vars

\* C35 witness: a subscription ticket of two units was committed on the
\* essentials row, in a window opened after the first one: the usage is 2.
C35_Witness ==
    /\ pc[1] = "done"
    /\ loc[1].source = "subscription"
    /\ loc[1].units = 2
    /\ Row.plan = "essentials"
    /\ Row.stripe_subscription_id = "sub_1"
    /\ Row.period_usage = loc[1].base + 2
    /\ committed = 2

\* C36: the save with which ensure_period rolls the window does not
\* discard a consumption made meanwhile: when a request finishes rolling
\* the window it read at `now`, and since that read another request has
\* committed a subscription ticket of n units on the row, the usage of the
\* new window is n.
C36_RollKeepsConcurrentCommit ==
    [][ \A q \in Procs : \A p \in Procs \ {q} :
          ( /\ pc[q] = "r_ensure" /\ pc'[q] # "r_ensure"
            /\ NeedsRoll(loc[q].obj, loc[q].now)
            /\ pc[p] = "done" /\ loc[p].source = "subscription"
            /\ Row.current_period_start = loc[q].obj.current_period_start
            /\ Row.current_period_end = loc[q].obj.current_period_end
            /\ Row.period_usage = loc[q].obj.period_usage + loc[p].units )
          => subs'[UserId].period_usage = loc[p].units ]_vars

\* The provider subscription id an event is about.
EventSubId(ev) ==
    IF ev.kind = "lifecycle" THEN ev.stripe_sub.id ELSE ev.sub_id

\* C37: a subscription lifecycle or invoice event for provider subscription
\* X changes no Subscription row that is linked to another, non-null
\* provider subscription Y.
C37_OtherSubscriptionUntouched ==
    [][ ( /\ pc[1] \in {"wh_save", "wh_past_due"} /\ pc'[1] = "idle"
          /\ loc[1].ev.kind \in {"lifecycle", "invoice.payment_succeeded",
                                  "invoice.payment_failed"}
          /\ HasRow
          /\ Row.stripe_subscription_id # NULL
          /\ Row.stripe_subscription_id # EventSubId(loc[1].ev) )
        => subs' = subs ]_vars

\* ------------------------------------------------------------------------
\* SpecCancel: an account with a plan (or none) and at most one purchase
\* cancels its subscription and asks for credits, one request at a time,
\* with time advancing and no webhook arriving.
\* ------------------------------------------------------------------------
NextCancel ==
    \/ \E ape \in BOOLEAN : CancelSubscriptionView(1, ape)
    \/ \E ok \in BOOLEAN : CancelSubscriptionReturns(1, ok)
    \/ CancelSubscriptionSave(1)
    \/ Respond(1)
    \/ \E units \in Units : ReserveStart(1, units)
    \/ ReserveSubscription(1)
    \/ ReserveEnsure(1)
    \/ CommitStart(1)
    \/ CommitWrite(1)
    \/ Abandon(1)
    \/ Return(1)
    \/ Tick

SpecCancel == InitTicketRace /\ [][NextCancel]_vars

\* C38: reserve_credit grants no subscription ticket to a user whose row
\* has status canceled and who has no unconsumed ReportPurchase.
C38_CanceledGetsNoTicket ==
    [][ ( /\ ReserveGrants(1)
          /\ loc'[1].source = "subscription" )
        => ~(HasRow /\ Row.status = "canceled" /\ Unconsumed = {}) ]_vars

\* A step of the start-free-trial action: no request slot moves, and the
\* row or the last writer of the status becomes the one stamp_free_trial
\* leaves.
TrialStarts ==
    /\ users' = users /\ pc' = pc /\ loc' = loc /\ clock' = clock
    /\ status_by' = "stamp_free_trial"
    /\ <<subs', status_by'>> # <<subs, status_by>>

\* C39: the start-free-trial action at time now leaves the row with status
\* trialing, trial_start = now, trial_end = now + 14 days, the window
\* [now, now + 1 calendar month - 1 second] and period_usage 0, and with
\* the plan and the provider references it had.
C39_TrialStamp ==
    [][ TrialStarts =>
          LET old == GetOrCreate(subs)[UserId]
              new == subs'[UserId]
              now == Now(clock)
          IN /\ new.status = "trialing"
             /\ new.trial_start = now
             /\ new.trial_end = now + 14 * TicksPerDay
             /\ new.current_period_start = now
             /\ new.current_period_end = AddOneMonth(now) - OneSecond
             /\ new.period_usage = 0
             /\ new.plan = old.plan
             /\ new.interval = old.interval
             /\ new.stripe_customer_id = old.stripe_customer_id
             /\ new.stripe_subscription_id = old.stripe_subscription_id
             /\ new.cancel_at_period_end = old.cancel_at_period_end ]_vars

\* C39 witness: the trial was started at the second instant on a row that
\* had a provider customer; the row is trialing with that customer, its
\* trial ends 14 days later and its window a month later.
C39_Witness ==
    /\ status_by = "stamp_free_trial"
    /\ clock = 2
    /\ HasRow
    /\ Row.status = "trialing"
    /\ Row.stripe_customer_id = OwnCustomer
    /\ Row.trial_start = TimePoint(2)
    /\ Row.trial_end = TimePoint(2) + 14 * TicksPerDay
    /\ Row.current_period_end > Row.trial_end
    /\ Row.period_usage = 0

\* C40: for a free-plan row whose status is not trialing or whose trial_end
\* is before the current time, reserve_credit finds 0 remaining
\* subscription credits whatever period_usage is, and refuses: no
\* subscription ticket is granted to it.
C40_NoCreditAfterTrial ==
    [][ ( /\ ReserveReturns(1)
          /\ subs'[UserId].plan = "free"
          /\ \/ subs'[UserId].status # "trialing"
             \/ subs'[UserId].trial_end < Now(clock) )
        => /\ pc'[1] = "denied"
           /\ loc'[1].source = "none"
           /\ loc'[1].have = 0 ]_vars

\* C40 witness: a free-plan row still marked trialing whose trial report
\* was never used asked for one credit after trial_end and was refused
\* with have 0.
C40_Witness ==
    /\ pc[1] = "denied"
    /\ loc[1].need = 1
    /\ loc[1].have = 0
    /\ Row.plan = "free"
    /\ Row.status = "trialing"
    /\ Row.period_usage = 0
    /\ Row.trial_end # 0
    /\ Row.trial_end < Now(clock)

====
